---- MODULE Spec2Model ----
(***************************************************************************)
(* A model of the basketball analytics core: CentroidTracker (tracker.py), *)
(* TrajectoryAnalyzer (trajectory.py) and ShotDetector (shot_detector.py). *)
(* Pixel coordinates are integers (detector.py builds every center with    *)
(* int()); a centroid is a pair <<x, y>>.                                  *)
(***************************************************************************)
EXTENDS Integers, Sequences, FiniteSets, TLC

(***************************************************************************)
(* Bounds of the model.  MAX_DISAPPEARED and TRAJECTORY_HISTORY_LENGTH are *)
(* configuration options (config.py sets 15 and 64); the model runs the    *)
(* code with small values of them, the claims being stated for whatever    *)
(* value is configured.                                                    *)
(***************************************************************************)
MaxIds == 2
MaxDets == 2
MaxFrames == 4
MaxRecorded == 5
MaxShotFrames == 6
MaxShots == 3
MaxRunFrames == 5
MaxAnalysisFrames == 3
MaxFlash == 2
MaxStepFrames == 3
MAX_DISAPPEARED == 2
TRAJECTORY_HISTORY_LENGTH == 3

\* config.MAX_TRACK_DISTANCE
MAX_TRACK_DISTANCE == 100

\* config.POLYFIT_DEGREE
POLYFIT_DEGREE == 2

\* config.FUSION_MATCH_DISTANCE
FUSION_MATCH_DISTANCE == 30

\* The pixel positions the tracker's inputs are drawn from.  Every pairwise distance is integral (0, 60, 100 or 160), so that
\* the square root below is exact; 60 lies within the association cutoff, 100 is exactly the
\* cutoff and 160 lies beyond it.
Points == {<<0, 0>>, <<60, 80>>, <<96, 128>>}

\* The hoop rectangle (x, y, w, h) of the shot detector's runs, and the
\* positions its inputs are drawn from: above the rectangle, inside it, below
\* it and beside it.
Roi == <<40, 60, 40, 40>>
HoopPoints == {<<60, 0>>, <<60, 80>>, <<60, 160>>, <<0, 80>>}
\* The positions of the runs that watch single transitions: those above and
\* a position below the rectangle and beside its column.
StepPoints == HoopPoints \cup {<<0, 160>>}

\* Python's None, where a field holds None or a tuple
None == <<>>

\* The pixel positions the trajectory analyzer's inputs are drawn from: two
\* on one vertical line, one beside them; the distances are 60, 80 and 100.
TrajPoints == {<<0, 0>>, <<0, 60>>, <<80, 60>>}

\* The identities the analyzer's and the shot detector's inputs speak of.
Ids == {0, 1}

\* Lists of at most n detection centers, in the detector's output order.
CentroidLists(P, n) == UNION {[1..k -> P] : k \in 0..n}

(***************************************************************************)
(* Python dictionaries (OrderedDict, defaultdict, dict) keep insertion     *)
(* order: a dictionary is the sequence of its entries [k, v].              *)
(***************************************************************************)
Keys(d) == [i \in 1..Len(d) |-> d[i].k]
Values(d) == [i \in 1..Len(d) |-> d[i].v]
KeySet(d) == {d[i].k : i \in 1..Len(d)}
Has(d, key) == key \in KeySet(d)
Get(d, key) == d[CHOOSE i \in 1..Len(d) : d[i].k = key].v
\* d[key] = value: in place for a key that is present, appended otherwise
Put(d, key, value) ==
    IF Has(d, key)
    THEN [d EXCEPT ![CHOOSE i \in 1..Len(d) : d[i].k = key] = [k |-> key, v |-> value]]
    ELSE Append(d, [k |-> key, v |-> value])
\* del d[key]
Del(d, key) == SelectSeq(d, LAMBDA e : e.k # key)
\* d.get(key, default)
GetOr(d, key, default) == IF Has(d, key) THEN Get(d, key) ELSE default
\* a defaultdict read d[key]: a missing key is first stored with the default
Touch(d, key, default) == IF Has(d, key) THEN d ELSE Append(d, [k |-> key, v |-> default])

Min(S) == CHOOSE m \in S : \A n \in S : m <= n

(***************************************************************************)
(* math.sqrt / np.linalg.norm on the sum of two integer squares.  The root *)
(* is computed exactly; evaluation fails on a value that is not a perfect  *)
(* square, so no rounding is ever hidden.                                  *)
(***************************************************************************)
RECURSIVE Root(_, _, _)
Root(n, lo, hi) ==
    IF lo >= hi THEN lo
    ELSE LET mid == (lo + hi + 1) \div 2
         IN IF mid * mid <= n THEN Root(n, mid, hi) ELSE Root(n, lo, mid - 1)
Sqrt(n) == CHOOSE r \in {Root(n, 0, n)} : r * r = n

\* utils.euclidean_distance
euclidean_distance(p1, p2) ==
    Sqrt((p1[1] - p2[1]) * (p1[1] - p2[1]) + (p1[2] - p2[2]) * (p1[2] - p2[2]))

VARIABLES
    next_id,        \* CentroidTracker.next_id
    objects,        \* CentroidTracker.objects: id -> (cx, cy)
    disappeared,    \* CentroidTracker.disappeared: id -> consecutive misses
    issued,         \* history: the ids register() has handed out, in order
    removed,        \* history: the ids deregister() has removed
    upd,            \* the locals of the last CentroidTracker.update call
    streak,         \* history: id -> the updates in a row that left it unmatched
    positions,      \* TrajectoryAnalyzer.positions: id -> deque of (cx, cy)
    total_distance, \* TrajectoryAnalyzer.total_distance: id -> float
    max_speed,      \* TrajectoryAnalyzer.max_speed: id -> float
    frame_count,    \* TrajectoryAnalyzer.frame_count: id -> int
    hoop_roi,       \* ShotDetector.hoop_roi: None or (x, y, w, h)
    enabled,        \* ShotDetector._enabled
    states,         \* ShotDetector.states: id -> ShotState
    shots_taken,    \* ShotDetector.shots_taken
    shots_made,     \* ShotDetector.shots_made
    shot_log,       \* ShotDetector.shot_log
    last_shot_result, \* ShotDetector.last_shot_result: None or (result, frame)
    frame_number,   \* VideoProcessor.frame_number: the frame of the last update
    scen,           \* history: id -> how far its last updates follow a shot scenario
    contour_dets,   \* BallDetector.detect: the contour stage's detections
    hough_dets,     \* BallDetector.detect: the Hough stage's detections
    detections,     \* BallDetector.detect: the list returned
    display,        \* VideoProcessor.display
    no_shot_detection, \* VideoProcessor.no_shot_detection
    pc,             \* VideoProcessor.run: "setup" before _setup_hoop_roi, then "frames"
    call            \* history: the last call made on the two analyzers, [op, arg]

tracker_vars == <<next_id, objects, disappeared, issued, removed, upd, streak>>
traj_vars == <<positions, total_distance, max_speed, frame_count>>
shot_vars == <<hoop_roi, enabled, states, shots_taken, shots_made, shot_log,
               last_shot_result, frame_number, scen>>
detector_vars == <<contour_dets, hough_dets, detections>>
processor_vars == <<display, no_shot_detection, pc>>
vars == <<tracker_vars, traj_vars, shot_vars, detector_vars, processor_vars, call>>

(***************************************************************************)
(* BallDetector: the fusion of the two stages' detections (detector.py).   *)
(* A Detection is a record; its radius is counted in half pixels, so that  *)
(* the mean of two whole-pixel radii is exact, and its confidence in       *)
(* hundredths.                                                             *)
(***************************************************************************)
\* detector.Detection
Detection(center, radius, confidence, method) ==
    [center |-> center, radius |-> radius, confidence |-> confidence,
     method |-> method]

\* What the contour stage and the Hough stage may find on a frame: balls on
\* the vertical line x = 60, so that every distance is integral.  Hough
\* detections carry confidence 0.5 (detector.py, line 88).
ContourDets ==
    {Detection(<<60, 0>>, 40, 60, "contour"),
     Detection(<<60, 40>>, 40, 80, "contour"),
     Detection(<<60, 80>>, 60, 90, "contour")}
HoughDets ==
    {Detection(<<60, 20>>, 20, 50, "hough"),
     Detection(<<60, 30>>, 24, 50, "hough"),
     Detection(<<60, 80>>, 40, 50, "hough")}

\* Lists of at most n detections from D.
DetectionLists(D, n) == UNION {[1..k -> D] : k \in 0..n}

\* int(n / 2): true division, then truncation toward zero
HalfInt(n) == IF n >= 0 THEN n \div 2 ELSE -((-n) \div 2)

\* _fuse_detections, lines 106-114: the index of the closest Hough detection
\* not yet used and nearer than FUSION_MATCH_DISTANCE, the first such on
\* equal distances; 0 stands for None (indices count from 1 here)
RECURSIVE BestMatch(_, _, _, _, _, _)
BestMatch(c_det, hough, used_hough, i, best_match, best_dist) ==
    IF i > Len(hough) THEN best_match
    ELSE IF i \in used_hough
    THEN BestMatch(c_det, hough, used_hough, i + 1, best_match, best_dist)
    ELSE LET dist == euclidean_distance(c_det.center, hough[i].center)
         IN IF dist < best_dist
            THEN BestMatch(c_det, hough, used_hough, i + 1, i, dist)
            ELSE BestMatch(c_det, hough, used_hough, i + 1, best_match, best_dist)

\* _fuse_detections, lines 117-128: the detection fused of a contour
\* detection and the Hough detection matched to it
Fused(c_det, h_det) ==
    Detection(<<HalfInt(c_det.center[1] + h_det.center[1]),
                HalfInt(c_det.center[2] + h_det.center[2])>>,
              (c_det.radius + h_det.radius) \div 2,
              IF c_det.confidence + 30 < 100 THEN c_det.confidence + 30 ELSE 100,
              "fused")

\* _fuse_detections, lines 132-134: the Hough detections left unmatched, in
\* index order
UnmatchedHough(hough, used_hough) ==
    LET Rest[i \in 0..Len(hough)] ==
          IF i = 0 THEN <<>>
          ELSE IF i \in used_hough THEN Rest[i - 1]
          ELSE Append(Rest[i - 1], hough[i])
    IN Rest[Len(hough)]

\* _fuse_detections, lines 102-136: the loop over the contour detections
\* from the k-th on, then the unmatched Hough detections
RECURSIVE FuseLoop(_, _, _, _, _)
FuseLoop(contour, hough, k, used_hough, fused) ==
    IF k > Len(contour) THEN fused \o UnmatchedHough(hough, used_hough)
    ELSE LET best_match == BestMatch(contour[k], hough, used_hough, 1, 0,
                                     FUSION_MATCH_DISTANCE)
         IN IF best_match # 0
            THEN FuseLoop(contour, hough, k + 1, used_hough \cup {best_match},
                          Append(fused, Fused(contour[k], hough[best_match])))
            ELSE FuseLoop(contour, hough, k + 1, used_hough,
                          Append(fused, contour[k]))

\* _fuse_detections, were a result to need both stages
fuse_needing_both(contour, hough) ==
    IF contour = <<>> \/ hough = <<>> THEN <<>>
    ELSE FuseLoop(contour, hough, 1, {}, <<>>)

\* BallDetector._fuse_detections
fuse_detections(contour, hough) ==
    IF contour = <<>> /\ hough = <<>> THEN <<>>
    ELSE IF hough = <<>> THEN contour
    ELSE IF contour = <<>> THEN hough
    ELSE FuseLoop(contour, hough, 1, {}, <<>>)

\* One call of BallDetector.detect, the two stages finding the given lists
\* (lines 144-146).
Detect(contour, hough) ==
    /\ contour_dets' = contour
    /\ hough_dets' = hough
    /\ detections' = fuse_detections(contour, hough)

(***************************************************************************)
(* CentroidTracker                                                         *)
(***************************************************************************)
\* The tracker object, with the two history fields.
TrackerState ==
    [next_id |-> next_id, objects |-> objects, disappeared |-> disappeared,
     issued |-> issued, removed |-> removed]

\* CentroidTracker.__init__
TrackerInit ==
    [next_id |-> 0, objects |-> <<>>, disappeared |-> <<>>,
     issued |-> <<>>, removed |-> {}]

\* register, were it to hand out the lowest identity not in use
register_lowest_free(t, centroid) ==
    LET free == Min({i \in 0..t.next_id : ~Has(t.objects, i)})
    IN [t EXCEPT !.objects = Put(@, free, centroid),
                 !.disappeared = Put(@, free, 0),
                 !.next_id = IF free = t.next_id THEN t.next_id + 1 ELSE t.next_id,
                 !.issued = Append(@, free)]

\* CentroidTracker.register
register(t, centroid) ==
    [t EXCEPT !.objects = Put(@, t.next_id, centroid),
              !.disappeared = Put(@, t.next_id, 0),
              !.next_id = t.next_id + 1,
              !.issued = Append(@, t.next_id)]

\* deregister, were line 32 missing: the count of the removed identity stays
deregister_count_left(t, object_id) ==
    [t EXCEPT !.objects = Del(@, object_id),
              !.removed = @ \cup {object_id}]

\* CentroidTracker.deregister
deregister(t, object_id) ==
    [t EXCEPT !.objects = Del(@, object_id),
              !.disappeared = Del(@, object_id),
              !.removed = @ \cup {object_id}]

\* the deregistration test, were it to fire one update early
PastThreshold_at(count) == count >= MAX_DISAPPEARED

\* the deregistration test of update: lines 48 and 94
PastThreshold(count) == count > MAX_DISAPPEARED

\* update, lines 47-49 and 93-95: count one more missed frame for object_id
\* and deregister it past the threshold
MarkDisappeared(t, object_id) ==
    LET t1 == [t EXCEPT !.disappeared = Put(@, object_id, Get(@, object_id) + 1)]
    IN IF PastThreshold(Get(t1.disappeared, object_id))
       THEN deregister(t1, object_id)
       ELSE t1

\* update, lines 46-49: for object_id in list(self.disappeared.keys())
RECURSIVE MarkAll(_, _)
MarkAll(t, ids) ==
    IF ids = <<>> THEN t
    ELSE MarkAll(MarkDisappeared(t, Head(ids)), Tail(ids))

\* lines 53-54, were the centroids registered last to first
RECURSIVE RegisterAll_reversed(_, _)
RegisterAll_reversed(t, centroids) ==
    IF centroids = <<>> THEN t
    ELSE RegisterAll_reversed(register(t, centroids[Len(centroids)]),
                              SubSeq(centroids, 1, Len(centroids) - 1))

\* update, lines 53-54: for centroid in input_centroids: self.register(centroid)
RECURSIVE RegisterAll(_, _)
RegisterAll(t, centroids) ==
    IF centroids = <<>> THEN t
    ELSE RegisterAll(register(t, Head(centroids)), Tail(centroids))

\* update, line 63: the (M, N) matrix of distances, rows the existing
\* objects and columns the incoming centroids (indices from 1 here), as the
\* set of its entries [row, col, dist]
DistMatrix(object_centroids, input_centroids) ==
    {[row |-> p[1], col |-> p[2],
      dist |-> euclidean_distance(object_centroids[p[1]], input_centroids[p[2]])]
     : p \in (1..Len(object_centroids)) \X (1..Len(input_centroids))}

\* lines 71-72, were the pairs sorted by descending distance
NextPairs_farthest_first(rest) ==
    LET most == CHOOSE d \in {e.dist : e \in rest} : \A e \in rest : e.dist <= d
    IN {e \in rest : e.dist = most}

\* update, lines 71-72: the entries np.argsort may yield next among those
\* not yet visited.  argsort's default kind is not a stable sort, so any of
\* the entries at the least distance may come first.
NextPairs(rest) ==
    LET least == Min({e.dist : e \in rest})
    IN {e \in rest : e.dist = least}

\* line 75, were only the row tested
Consumed_row_only(e, used_rows, used_cols) == e.row \in used_rows

\* update, line 75
Consumed(e, used_rows, used_cols) == e.row \in used_rows \/ e.col \in used_cols

\* line 77, were a pair at exactly the cutoff rejected
TooFar_at_cutoff(e) == e.dist >= MAX_TRACK_DISTANCE

\* line 77, were pairs beyond half the maximum distance rejected
TooFar_half_cutoff(e) == 2 * e.dist > MAX_TRACK_DISTANCE

\* update, line 77
TooFar(e) == e.dist > MAX_TRACK_DISTANCE

(***************************************************************************)
(* update, lines 66-82: the greedy loop over the sorted pairs; the set of  *)
(* its possible outcomes, one per order argsort may give to equal          *)
(* distances.  A consumed pair is skipped whenever it is visited and, the  *)
(* used sets only growing, stays consumed: the consumed pairs at the least *)
(* distance are dropped together, which is the same for every order.       *)
(***************************************************************************)
RECURSIVE Greedy(_, _, _, _)
Greedy(rest, used_rows, used_cols, matches) ==
    LET done == {[used_rows |-> used_rows, used_cols |-> used_cols,
                  matches |-> matches]}
    IN IF rest = {} THEN done
       ELSE LET next == NextPairs(rest)
                skip == {e \in next : Consumed(e, used_rows, used_cols)}
            IN IF skip # {}
               THEN Greedy(rest \ skip, used_rows, used_cols, matches)
               ELSE UNION {
                      IF TooFar(e)
                      THEN done
                      ELSE Greedy(rest \ {e},
                                  used_rows \cup {e.row}, used_cols \cup {e.col},
                                  Append(matches, <<e.row, e.col>>))
                      : e \in next}

\* update, lines 79-80: assignments[obj_id] = input_centroids[col]
RECURSIVE Assignments(_, _, _)
Assignments(matches, object_ids, input_centroids) ==
    IF matches = <<>> THEN <<>>
    ELSE LET p == matches[Len(matches)]
         IN Put(Assignments(SubSeq(matches, 1, Len(matches) - 1),
                            object_ids, input_centroids),
                object_ids[p[1]], input_centroids[p[2]])

\* lines 85-87, were line 87 missing: a match leaves the count as it is
RECURSIVE ApplyAssignments_count_kept(_, _)
ApplyAssignments_count_kept(t, assignments) ==
    IF assignments = <<>> THEN t
    ELSE ApplyAssignments_count_kept(
           [t EXCEPT !.objects = Put(@, Head(assignments).k, Head(assignments).v)],
           Tail(assignments))

\* update, lines 85-87
RECURSIVE ApplyAssignments(_, _)
ApplyAssignments(t, assignments) ==
    IF assignments = <<>> THEN t
    ELSE ApplyAssignments(
           [t EXCEPT !.objects = Put(@, Head(assignments).k, Head(assignments).v),
                     !.disappeared = Put(@, Head(assignments).k, 0)],
           Tail(assignments))

\* update, lines 90-95: the rows in range order, the unmatched ones marked
RECURSIVE MarkUnmatched(_, _, _, _)
MarkUnmatched(t, object_ids, used_rows, row) ==
    IF row > Len(object_ids) THEN t
    ELSE MarkUnmatched(
           IF row \notin used_rows THEN MarkDisappeared(t, object_ids[row]) ELSE t,
           object_ids, used_rows, row + 1)

\* lines 98-100, were the unmatched detections dropped
RegisterUnmatched_none(t, input_centroids, used_cols, col) == t

\* update, lines 98-100: the columns in range order, the unmatched ones
\* registered
RECURSIVE RegisterUnmatched(_, _, _, _)
RegisterUnmatched(t, input_centroids, used_cols, col) ==
    IF col > Len(input_centroids) THEN t
    ELSE RegisterUnmatched(
           IF col \notin used_cols THEN register(t, input_centroids[col]) ELSE t,
           input_centroids, used_cols, col + 1)

\* The locals of an update call; those a return path never assigns are empty.
Locals(path, input_centroids, object_ids, object_centroids, g) ==
    [path |-> path, input_centroids |-> input_centroids,
     object_ids |-> object_ids, object_centroids |-> object_centroids,
     used_rows |-> g.used_rows, used_cols |-> g.used_cols, matches |-> g.matches,
     assignments |-> Assignments(g.matches, object_ids, input_centroids)]

NoMatch == [used_rows |-> {}, used_cols |-> {}, matches |-> <<>>]

(***************************************************************************)
(* CentroidTracker.update: the set of [t, loc], the tracker after the call *)
(* and the call's locals, over the orders argsort may give to ties.        *)
(***************************************************************************)
update(t, input_centroids) ==
    IF Len(input_centroids) = 0
    THEN {[t |-> MarkAll(t, Keys(t.disappeared)),
           loc |-> Locals("no_detections", input_centroids, <<>>, <<>>, NoMatch)]}
    ELSE IF Len(t.objects) = 0
    THEN {[t |-> RegisterAll(t, input_centroids),
           loc |-> Locals("no_objects", input_centroids, <<>>, <<>>, NoMatch)]}
    ELSE LET object_ids == Keys(t.objects)
             object_centroids == Values(t.objects)
             dist_matrix == DistMatrix(object_centroids, input_centroids)
         IN {[t |-> RegisterUnmatched(
                      MarkUnmatched(
                        ApplyAssignments(t, Assignments(g.matches, object_ids,
                                                        input_centroids)),
                        object_ids, g.used_rows, 1),
                      input_centroids, g.used_cols, 1),
              loc |-> Locals("associate", input_centroids, object_ids,
                             object_centroids, g)]
             : g \in Greedy(dist_matrix, {}, {}, <<>>)}

\* The identities the call matched to a detection.
Matched(loc) == {loc.object_ids[loc.matches[i][1]] : i \in 1..Len(loc.matches)}

\* The history of unmatched updates, kept apart from the tracker's own
\* counters: an identity tracked when the call began has its run of unmatched
\* updates reset by a match and extended otherwise.
Streak(before, loc, after) ==
    [id \in 0..(after.next_id - 1) |->
        IF id >= before.next_id THEN 0
        ELSE IF ~Has(before.objects, id) THEN streak[id]
        ELSE IF id \in Matched(loc) THEN 0
        ELSE streak[id] + 1]

\* One call of CentroidTracker.update with the given detection centers.
TrackerUpdate(input_centroids) ==
    \E r \in update(TrackerState, input_centroids) :
        /\ r.t.next_id <= MaxIds
        /\ next_id' = r.t.next_id
        /\ objects' = r.t.objects
        /\ disappeared' = r.t.disappeared
        /\ issued' = r.t.issued
        /\ removed' = r.t.removed
        /\ upd' = r.loc
        /\ streak' = Streak(TrackerState, r.loc, r.t)

(***************************************************************************)
(* TrajectoryAnalyzer                                                      *)
(***************************************************************************)
\* compute_velocity, were the difference taken the other way round
compute_velocity_reversed(p1, p2) == <<p1[1] - p2[1], p1[2] - p2[2]>>

\* utils.compute_velocity
compute_velocity(p1, p2) == <<p2[1] - p1[1], p2[2] - p1[2]>>

\* utils.compute_speed
compute_speed(p1, p2) == euclidean_distance(p1, p2)

\* The analyzer object.
TrajState ==
    [positions |-> positions, total_distance |-> total_distance,
     max_speed |-> max_speed, frame_count |-> frame_count]

\* TrajectoryAnalyzer.__init__
TrajInit ==
    [positions |-> <<>>, total_distance |-> <<>>, max_speed |-> <<>>,
     frame_count |-> <<>>]

\* deque.append, were the deque unbounded
DequeAppend_unbounded(q, x) == Append(q, x)

\* deque.append, were the history capacity 1: only the last position is kept
DequeAppend_capacity_one(q, x) == <<x>>

\* deque(maxlen=history_length).append: a full deque drops its oldest item
DequeAppend(q, x) ==
    IF Len(q) >= TRAJECTORY_HISTORY_LENGTH THEN Append(Tail(q), x) ELSE Append(q, x)

\* lines 27-32, were max_speed set to the speed of every update
AddSpeed_last_speed(a, obj_id, last, centroid) ==
    LET speed == compute_speed(last, centroid)
        total == Touch(a.total_distance, obj_id, 0)
        maxes == Touch(a.max_speed, obj_id, 0)
    IN [a EXCEPT !.total_distance = Put(total, obj_id, Get(total, obj_id) + speed),
                 !.max_speed = Put(maxes, obj_id, speed)]

\* update, lines 27-32: the distance from the last buffered position
AddSpeed(a, obj_id, last, centroid) ==
    LET speed == compute_speed(last, centroid)
        total == Touch(a.total_distance, obj_id, 0)
        maxes == Touch(a.max_speed, obj_id, 0)
    IN [a EXCEPT !.total_distance = Put(total, obj_id, Get(total, obj_id) + speed),
                 !.max_speed = IF speed > Get(maxes, obj_id)
                               THEN Put(maxes, obj_id, speed)
                               ELSE maxes]

\* the body of the loop, were a centroid equal to the last buffered position
\* not recorded again
TrajUpdateOne_moved_only(a, obj_id, centroid) ==
    LET a1 == [a EXCEPT !.positions = Touch(@, obj_id, <<>>)]
        buffered == Get(a1.positions, obj_id)
        a2 == IF Len(buffered) > 0
              THEN AddSpeed(a1, obj_id, buffered[Len(buffered)], centroid)
              ELSE a1
        counts == Touch(a2.frame_count, obj_id, 0)
    IN IF Len(buffered) > 0 /\ buffered[Len(buffered)] = centroid THEN a1
       ELSE [a2 EXCEPT !.positions = Put(@, obj_id, DequeAppend(buffered, centroid)),
                       !.frame_count = Put(counts, obj_id, Get(counts, obj_id) + 1)]

\* update, lines 26-34: the body of the loop for one tracked object
TrajUpdateOne(a, obj_id, centroid) ==
    LET a1 == [a EXCEPT !.positions = Touch(@, obj_id, <<>>)]
        buffered == Get(a1.positions, obj_id)
        a2 == IF Len(buffered) > 0
              THEN AddSpeed(a1, obj_id, buffered[Len(buffered)], centroid)
              ELSE a1
        counts == Touch(a2.frame_count, obj_id, 0)
    IN [a2 EXCEPT !.positions = Put(@, obj_id, DequeAppend(buffered, centroid)),
                  !.frame_count = Put(counts, obj_id, Get(counts, obj_id) + 1)]

\* TrajectoryAnalyzer.update
RECURSIVE TrajUpdateAll(_, _)
TrajUpdateAll(a, tracked_objects) ==
    IF tracked_objects = <<>> THEN a
    ELSE TrajUpdateAll(TrajUpdateOne(a, Head(tracked_objects).k, Head(tracked_objects).v),
                       Tail(tracked_objects))

\* TrajectoryAnalyzer.get_velocity
get_velocity(a, obj_id) ==
    IF ~Has(a.positions, obj_id) \/ Len(Get(a.positions, obj_id)) < 2
    THEN <<0, 0>>
    ELSE LET buffered == Get(a.positions, obj_id)
         IN compute_velocity(buffered[Len(buffered) - 1], buffered[Len(buffered)])

\* TrajectoryAnalyzer.get_speed
get_speed(a, obj_id) ==
    IF ~Has(a.positions, obj_id) \/ Len(Get(a.positions, obj_id)) < 2
    THEN 0
    ELSE LET buffered == Get(a.positions, obj_id)
         IN compute_speed(buffered[Len(buffered) - 1], buffered[Len(buffered)])

\* TrajectoryAnalyzer.get_acceleration
get_acceleration(a, obj_id) ==
    IF ~Has(a.positions, obj_id) \/ Len(Get(a.positions, obj_id)) < 3
    THEN <<0, 0>>
    ELSE LET buffered == Get(a.positions, obj_id)
             p0 == buffered[Len(buffered) - 2]
             p1 == buffered[Len(buffered) - 1]
             p2 == buffered[Len(buffered)]
         IN <<p2[1] - 2 * p1[1] + p0[1], p2[2] - 2 * p1[2] + p0[2]>>

\* TrajectoryAnalyzer.get_trail_points
get_trail_points(a, obj_id) == GetOr(a.positions, obj_id, <<>>)

\* round(num / den, 1), in tenths: the quotient of two small whole numbers
\* rounded to one decimal, ties to even.  The float quotient lies within
\* 2^-53 of num / den, relatively, and the only ties a float can hit
\* (..25 and ..75) are quotients it represents exactly, so rounding the
\* float is rounding the fraction.
RoundTenths(num, den) ==
    LET q == (10 * num) \div den
        r == (10 * num) % den
    IN IF 2 * r > den \/ (2 * r = den /\ q % 2 = 1) THEN q + 1 ELSE q

\* TrajectoryAnalyzer.get_summary; the three rounded fields in tenths of a
\* pixel
get_summary(a, obj_id) ==
    LET frames == GetOr(a.frame_count, obj_id, 0)
        total_dist == GetOr(a.total_distance, obj_id, 0)
    IN [object_id |-> obj_id,
        frames_tracked |-> frames,
        total_distance_px |-> RoundTenths(total_dist, 1),
        avg_speed_px_per_frame |->
            IF frames > 1 THEN RoundTenths(total_dist, frames) ELSE 0,
        max_speed_px_per_frame |-> RoundTenths(GetOr(a.max_speed, obj_id, 0), 1),
        positions_in_buffer |-> Len(GetOr(a.positions, obj_id, <<>>))]

\* cleanup, were the frame counters left behind
TrajCleanupAll_counters_kept(a, active_ids) ==
    LET stale == KeySet(a.positions) \ active_ids
        Keep(d) == SelectSeq(d, LAMBDA e : e.k \notin stale)
    IN [positions |-> Keep(a.positions), total_distance |-> Keep(a.total_distance),
        max_speed |-> Keep(a.max_speed), frame_count |-> a.frame_count]

\* cleanup, were only the position buffers deleted
TrajCleanupAll_positions_only(a, active_ids) ==
    [a EXCEPT !.positions = SelectSeq(@, LAMBDA e : e.k \in active_ids)]

\* np.ptp: the range of the values of a vector
Ptp(v) ==
    LET values == {v[i] : i \in 1..Len(v)}
    IN (CHOOSE m \in values : \A n \in values : m >= n) - Min(values)

\* pts[:, 0], were the column index 1
XColumn_from_y(pts) == [i \in 1..Len(pts) |-> pts[i][2]]

\* fit_trajectory, line 73: x = pts[:, 0]
XColumn(pts) == [i \in 1..Len(pts) |-> pts[i][1]]

\* fit_trajectory, line 73: y = pts[:, 1]
YColumn(pts) == [i \in 1..Len(pts) |-> pts[i][2]]

\* np.polyfit(x, y, config.POLYFIT_DEGREE): the coefficients of the least
\* squares polynomial, not computed here and told apart by the data fitted.
\* On finite data polyfit returns (a rank-deficient fit only warns); the
\* LinAlgError and ValueError it could raise are caught into None.
polyfit(x, y, degree) == <<"coeffs", degree, x, y>>

\* TrajectoryAnalyzer.fit_trajectory
fit_trajectory(a, obj_id) ==
    IF ~Has(a.positions, obj_id) \/ Len(Get(a.positions, obj_id)) < 3
    THEN None
    ELSE LET pts == Get(a.positions, obj_id)
         IN IF Ptp(XColumn(pts)) < 1
            THEN None
            ELSE polyfit(XColumn(pts), YColumn(pts), POLYFIT_DEGREE)

\* TrajectoryAnalyzer.cleanup
TrajCleanupAll(a, active_ids) ==
    LET stale == KeySet(a.positions) \ active_ids
        Keep(d) == SelectSeq(d, LAMBDA e : e.k \notin stale)
    IN [positions |-> Keep(a.positions), total_distance |-> Keep(a.total_distance),
        max_speed |-> Keep(a.max_speed), frame_count |-> Keep(a.frame_count)]

\* The identity->centroid mappings over the identities I, in the tracker's
\* order (ascending identity, the order of registration), with centroids
\* from P.
RECURSIVE AsDict(_, _)
AsDict(f, ids) ==
    IF ids = {} THEN <<>>
    ELSE <<[k |-> Min(ids), v |-> f[Min(ids)]]>> \o AsDict(f, ids \ {Min(ids)})
Mappings(I, P) == UNION {{AsDict(f, ids) : f \in [ids -> P]} : ids \in SUBSET I}

SetTraj(a) ==
    /\ positions' = a.positions
    /\ total_distance' = a.total_distance
    /\ max_speed' = a.max_speed
    /\ frame_count' = a.frame_count

\* The positions recorded for the identities the analyzer holds, in all.
RECURSIVE Recorded(_)
Recorded(counts) ==
    IF counts = <<>> THEN 0 ELSE Head(counts).v + Recorded(Tail(counts))

\* One call of TrajectoryAnalyzer.update.
TrajUpdate(tracked_objects) ==
    /\ \A i \in 1..Len(tracked_objects) :
         GetOr(frame_count, tracked_objects[i].k, 0) < MaxFrames
    /\ Recorded(frame_count) + Len(tracked_objects) <= MaxRecorded
    /\ SetTraj(TrajUpdateAll(TrajState, tracked_objects))

\* One call of TrajectoryAnalyzer.cleanup.
TrajCleanup(active_ids) == SetTraj(TrajCleanupAll(TrajState, active_ids))

(***************************************************************************)
(* Python floats: IEEE 754 binary64, round to nearest, ties to even.       *)
(* A natural number of any size is the sequence of its binary digits, most *)
(* significant first, without leading zeros (<<>> is 0).  A float is       *)
(* [man, exp] of value man * 2^exp, man of PRECISION digits; Zero is 0.0.  *)
(* Only the positive normal range is needed: quotients and percentages of  *)
(* small counts.                                                           *)
(***************************************************************************)
\* the binary digits of a float's significand
PRECISION == 53

RECURSIVE NatBits(_)
NatBits(n) == IF n = 0 THEN <<>> ELSE Append(NatBits(n \div 2), n % 2)

\* without the leading zeros
Strip(b) ==
    IF \A i \in 1..Len(b) : b[i] = 0 THEN <<>>
    ELSE SubSeq(b, CHOOSE i \in 1..Len(b) :
                       b[i] = 1 /\ \A k \in 1..(i - 1) : b[k] = 0, Len(b))

Zeros(k) == [i \in 1..k |-> 0]

\* b * 2^k
ShiftLeft(b, k) == IF b = <<>> THEN <<>> ELSE b \o Zeros(k)

\* Arithmetic goes by groups of LimbBits digits (limbs), most significant
\* first, so that every intermediate number fits a machine integer.
LimbBits == 15
Base == 2 ^ LimbBits

RECURSIVE BitsValue(_)
BitsValue(b) ==
    IF b = <<>> THEN 0 ELSE 2 * BitsValue(SubSeq(b, 1, Len(b) - 1)) + b[Len(b)]

ToLimbs(b) ==
    LET n == (Len(b) + LimbBits - 1) \div LimbBits
        padded == Zeros(LimbBits * n - Len(b)) \o b
    IN [j \in 1..n |->
           BitsValue(SubSeq(padded, LimbBits * (j - 1) + 1, LimbBits * j))]

ToBits(l) ==
    Strip([i \in 1..(LimbBits * Len(l)) |->
              (l[(i - 1) \div LimbBits + 1]
                   \div 2 ^ (LimbBits - 1 - ((i - 1) % LimbBits))) % 2])

\* b * k, k a small number
RECURSIVE MulStep(_, _, _, _)
MulStep(l, k, i, carry) ==
    IF i = 0 THEN <<carry>>
    ELSE LET x == l[i] * k + carry
         IN Append(MulStep(l, k, i - 1, x \div Base), x % Base)
MulSmall(b, k) == LET l == ToLimbs(b) IN ToBits(MulStep(l, k, Len(l), 0))

\* the quotient and the remainder of b by t, t a small number
RECURSIVE DivStep(_, _, _, _, _)
DivStep(l, t, i, r, q) ==
    IF i > Len(l) THEN [q |-> ToBits(q), r |-> r]
    ELSE LET x == Base * r + l[i]
         IN DivStep(l, t, i + 1, x % t, Append(q, x \div t))
LongDiv(b, t) == DivStep(ToLimbs(b), t, 1, 0, <<>>)

\* a <= b
LessEq(a, b) ==
    IF Len(a) # Len(b) THEN Len(a) < Len(b)
    ELSE \/ a = b
         \/ LET i == CHOOSE j \in 1..Len(a) :
                       a[j] # b[j] /\ \A k \in 1..(j - 1) : a[k] = b[k]
            IN a[i] < b[i]

\* a - b, for b <= a
RECURSIVE SubStep(_, _, _, _)
SubStep(a, b, i, borrow) ==
    IF i = 0 THEN <<>>
    ELSE LET d == a[i] - b[i] - borrow
         IN Append(SubStep(a, b, i - 1, IF d < 0 THEN 1 ELSE 0),
                   IF d < 0 THEN d + Base ELSE d)
Sub(a, b) ==
    LET la == ToLimbs(a)
        lb == ToLimbs(Zeros(Len(a) - Len(b)) \o b)
    IN ToBits(SubStep(la, lb, Len(la), 0))

\* |a - b|
Distance(a, b) == IF LessEq(a, b) THEN Sub(b, a) ELSE Sub(a, b)

\* b + 1
Increment(b) ==
    IF \A i \in 1..Len(b) : b[i] = 1 THEN <<1>> \o Zeros(Len(b))
    ELSE LET j == CHOOSE i \in 1..Len(b) :
                      b[i] = 0 /\ \A k \in (i + 1)..Len(b) : b[k] = 1
         IN [i \in 1..Len(b) |-> IF i < j THEN b[i] ELSE IF i = j THEN 1 ELSE 0]

Zero == [man |-> <<>>, exp |-> 0]

\* The float nearest to the positive number whose leading digits are b, of
\* weight 2^e, followed by more nonzero digits if sticky: to nearest, ties
\* to even.
Round(b, e, sticky) ==
    IF Len(b) <= PRECISION
    THEN [man |-> b \o Zeros(PRECISION - Len(b)), exp |-> e - (PRECISION - Len(b))]
    ELSE LET kept == SubSeq(b, 1, PRECISION)
             rest == SubSeq(b, PRECISION + 1, Len(b))
             more == sticky \/ \E i \in 2..Len(rest) : rest[i] = 1
             up == rest[1] = 1 /\ (more \/ kept[PRECISION] = 1)
             raised == IF up THEN Increment(kept) ELSE kept
         IN [man |-> SubSeq(raised, 1, PRECISION),
             exp |-> e + (Len(b) - PRECISION) + (Len(raised) - PRECISION)]

\* Python's m / t on ints (true division, correctly rounded), 0 <= m, 0 < t
FloatDiv(m, t) ==
    IF m = 0 THEN Zero
    ELSE LET s == PRECISION + 1 + Len(NatBits(t))
             d == LongDiv(ShiftLeft(NatBits(m), s), t)
         IN Round(d.q, -s, d.r # 0)

\* f * k for a float f and a float k that is a small whole number
FloatMul(f, k) ==
    IF f = Zero \/ k = 0 THEN Zero ELSE Round(MulSmall(f.man, k), f.exp, FALSE)

(***************************************************************************)
(* ShotDetector                                                            *)
(***************************************************************************)
\* The detector object.
ShotDetectorState ==
    [hoop_roi |-> hoop_roi, enabled |-> enabled, states |-> states,
     shots_taken |-> shots_taken, shots_made |-> shots_made,
     shot_log |-> shot_log, last_shot_result |-> last_shot_result]

\* ShotDetector.__init__: config.HOOP_ROI is None
ShotDetectorInit(roi) ==
    [hoop_roi |-> roi, enabled |-> roi # None, states |-> <<>>,
     shots_taken |-> 0, shots_made |-> 0, shot_log |-> <<>>,
     last_shot_result |-> None]

\* set_hoop_roi, were it to start the statistics afresh
set_hoop_roi_reset(sd, roi) ==
    [sd EXCEPT !.hoop_roi = roi, !.enabled = roi # None,
               !.shots_taken = 0, !.shots_made = 0]

\* set_hoop_roi, were it to leave the enabled flag as it was
set_hoop_roi_flag_kept(sd, roi) == [sd EXCEPT !.hoop_roi = roi]

\* ShotDetector.set_hoop_roi
set_hoop_roi(sd, roi) == [sd EXCEPT !.hoop_roi = roi, !.enabled = roi # None]

\* the made fraction, not scaled to a percentage
shooting_percentage_fraction(sd) ==
    IF sd.shots_taken = 0 THEN Zero
    ELSE FloatDiv(sd.shots_made, sd.shots_taken)

\* ShotDetector.shooting_percentage
\* (computed once for every pair of counters a run can reach)
Percentage ==
    [taken \in 0..(MaxShots + Cardinality(Ids)) |->
        [made \in 0..taken |->
            IF taken = 0 THEN Zero ELSE FloatMul(FloatDiv(made, taken), 100)]]
shooting_percentage(sd) == Percentage[sd.shots_taken][sd.shots_made]

\* get_recent_shot_result, were a shot flash_duration frames old left out
get_recent_shot_result_before(sd, frame, flash_duration) ==
    IF sd.last_shot_result = None THEN None
    ELSE LET frames_ago == frame - sd.last_shot_result[2]
         IN IF frames_ago < flash_duration
            THEN <<sd.last_shot_result[1], frames_ago>>
            ELSE None

\* ShotDetector.get_recent_shot_result
get_recent_shot_result(sd, frame, flash_duration) ==
    IF sd.last_shot_result = None THEN None
    ELSE LET frames_ago == frame - sd.last_shot_result[2]
         IN IF frames_ago <= flash_duration
            THEN <<sd.last_shot_result[1], frames_ago>>
            ELSE None

\* ShotDetector._is_above_roi
is_above_roi(roi, center) ==
    /\ roi[1] <= center[1] /\ center[1] <= roi[1] + roi[3]
    /\ center[2] < roi[2]

\* ShotDetector._is_in_roi
is_in_roi(roi, center) ==
    /\ roi[1] <= center[1] /\ center[1] <= roi[1] + roi[3]
    /\ roi[2] <= center[2] /\ center[2] <= roi[2] + roi[4]

\* ShotDetector._is_below_roi
is_below_roi(roi, center) == center[2] > roi[2] + roi[4]

\* _is_moving_down, were the sign of the vertical velocity read upside down
is_moving_up(velocity) == velocity[2] < 0

\* ShotDetector._is_moving_down
is_moving_down(velocity) == velocity[2] > 0

\* lines 114 and 128, were the state left as the shot set it
ResetState_kept(state) == state

\* update, lines 114 and 128: reset to IDLE for the next shot
ResetState(state) == "IDLE"

\* a missed shot, were it counted as made too
MadeBy_any(result) == 1

\* line 105, were a scored shot to add 2 to shots_made
MadeBy_twice(result) == IF result = "scored" THEN 2 ELSE 0

\* update, line 105: only a scored shot adds to shots_made
MadeBy(result) == IF result = "scored" THEN 1 ELSE 0

\* a shot, were the last result kept when an earlier shot of the same update
\* has set it
RecordShot_first_kept(sd, obj_id, center, frame, result, transient) ==
    LET s1 == [sd EXCEPT
                 !.states = Put(@, obj_id, transient),
                 !.shots_taken = @ + 1,
                 !.shots_made = @ + MadeBy(result),
                 !.last_shot_result =
                     IF @ # None /\ @[2] = frame THEN @ ELSE <<result, frame>>,
                 !.shot_log = Append(@, [frame |-> frame, object_id |-> obj_id,
                                         result |-> result, position |-> center])]
    IN [s1 EXCEPT !.states = Put(@, obj_id, ResetState(transient))]

\* a shot, were line 120 missing: a missed shot leaves the last result alone
RecordShot_slot_on_score(sd, obj_id, center, frame, result, transient) ==
    LET s1 == [sd EXCEPT
                 !.states = Put(@, obj_id, transient),
                 !.shots_taken = @ + 1,
                 !.shots_made = @ + MadeBy(result),
                 !.last_shot_result =
                     IF result = "scored" THEN <<result, frame>> ELSE @,
                 !.shot_log = Append(@, [frame |-> frame, object_id |-> obj_id,
                                         result |-> result, position |-> center])]
    IN [s1 EXCEPT !.states = Put(@, obj_id, ResetState(transient))]

\* update, lines 103-114 and 118-128: a shot with the given result, the
\* state passing through SCORED or MISSED
RecordShot(sd, obj_id, center, frame, result, transient) ==
    LET s1 == [sd EXCEPT
                 !.states = Put(@, obj_id, transient),
                 !.shots_taken = @ + 1,
                 !.shots_made = @ + MadeBy(result),
                 !.last_shot_result = <<result, frame>>,
                 !.shot_log = Append(@, [frame |-> frame, object_id |-> obj_id,
                                         result |-> result, position |-> center])]
    IN [s1 EXCEPT !.states = Put(@, obj_id, ResetState(transient))]

\* update, were line 97 to ask only whether the centroid has left the region
\* above the rectangle
ShotUpdateOne_leaving_above(sd, obj_id, center, velocity, frame) ==
    LET s0 == [sd EXCEPT !.states = Touch(@, obj_id, "IDLE")]
        state == Get(s0.states, obj_id)
        roi == sd.hoop_roi
    IN IF state = "IDLE"
       THEN IF is_above_roi(roi, center)
            THEN [s0 EXCEPT !.states = Put(@, obj_id, "ABOVE_HOOP")]
            ELSE s0
       ELSE IF state = "ABOVE_HOOP"
       THEN IF is_in_roi(roi, center) /\ is_moving_down(velocity)
            THEN [s0 EXCEPT !.states = Put(@, obj_id, "IN_HOOP")]
            ELSE IF ~is_above_roi(roi, center)
            THEN [s0 EXCEPT !.states = Put(@, obj_id, "IDLE")]
            ELSE s0
       ELSE IF state = "IN_HOOP"
       THEN IF is_below_roi(roi, center)
            THEN RecordShot(s0, obj_id, center, frame, "scored", "SCORED")
            ELSE IF ~is_in_roi(roi, center)
            THEN RecordShot(s0, obj_id, center, frame, "missed", "MISSED")
            ELSE s0
       ELSE s0

\* update, were a shot scored only below the rectangle and within its x-range
ShotUpdateOne_below_in_column(sd, obj_id, center, velocity, frame) ==
    LET s0 == [sd EXCEPT !.states = Touch(@, obj_id, "IDLE")]
        state == Get(s0.states, obj_id)
        roi == sd.hoop_roi
    IN IF state = "IDLE"
       THEN IF is_above_roi(roi, center)
            THEN [s0 EXCEPT !.states = Put(@, obj_id, "ABOVE_HOOP")]
            ELSE s0
       ELSE IF state = "ABOVE_HOOP"
       THEN IF is_in_roi(roi, center) /\ is_moving_down(velocity)
            THEN [s0 EXCEPT !.states = Put(@, obj_id, "IN_HOOP")]
            ELSE IF ~is_above_roi(roi, center) /\ ~is_in_roi(roi, center)
            THEN [s0 EXCEPT !.states = Put(@, obj_id, "IDLE")]
            ELSE s0
       ELSE IF state = "IN_HOOP"
       THEN IF /\ is_below_roi(roi, center)
               /\ roi[1] <= center[1] /\ center[1] <= roi[1] + roi[3]
            THEN RecordShot(s0, obj_id, center, frame, "scored", "SCORED")
            ELSE IF ~is_in_roi(roi, center)
            THEN RecordShot(s0, obj_id, center, frame, "missed", "MISSED")
            ELSE s0
       ELSE s0

\* update, were a centroid below the rectangle scored from ABOVE_HOOP too
ShotUpdateOne_shot_from_above(sd, obj_id, center, velocity, frame) ==
    LET s0 == [sd EXCEPT !.states = Touch(@, obj_id, "IDLE")]
        state == Get(s0.states, obj_id)
        roi == sd.hoop_roi
    IN IF state = "IDLE"
       THEN IF is_above_roi(roi, center)
            THEN [s0 EXCEPT !.states = Put(@, obj_id, "ABOVE_HOOP")]
            ELSE s0
       ELSE IF state = "ABOVE_HOOP"
       THEN IF is_in_roi(roi, center) /\ is_moving_down(velocity)
            THEN [s0 EXCEPT !.states = Put(@, obj_id, "IN_HOOP")]
            ELSE IF is_below_roi(roi, center)
            THEN RecordShot(s0, obj_id, center, frame, "scored", "SCORED")
            ELSE IF ~is_above_roi(roi, center) /\ ~is_in_roi(roi, center)
            THEN [s0 EXCEPT !.states = Put(@, obj_id, "IDLE")]
            ELSE s0
       ELSE IF state = "IN_HOOP"
       THEN IF is_below_roi(roi, center)
            THEN RecordShot(s0, obj_id, center, frame, "scored", "SCORED")
            ELSE IF ~is_in_roi(roi, center)
            THEN RecordShot(s0, obj_id, center, frame, "missed", "MISSED")
            ELSE s0
       ELSE s0

\* update, lines 87-128: the body of the loop for one tracked object
ShotUpdateOne(sd, obj_id, center, velocity, frame) ==
    LET s0 == [sd EXCEPT !.states = Touch(@, obj_id, "IDLE")]
        state == Get(s0.states, obj_id)
        roi == sd.hoop_roi
    IN IF state = "IDLE"
       THEN IF is_above_roi(roi, center)
            THEN [s0 EXCEPT !.states = Put(@, obj_id, "ABOVE_HOOP")]
            ELSE s0
       ELSE IF state = "ABOVE_HOOP"
       THEN IF is_in_roi(roi, center) /\ is_moving_down(velocity)
            THEN [s0 EXCEPT !.states = Put(@, obj_id, "IN_HOOP")]
            ELSE IF ~is_above_roi(roi, center) /\ ~is_in_roi(roi, center)
            THEN [s0 EXCEPT !.states = Put(@, obj_id, "IDLE")]
            ELSE s0
       ELSE IF state = "IN_HOOP"
       THEN IF is_below_roi(roi, center)
            THEN RecordShot(s0, obj_id, center, frame, "scored", "SCORED")
            ELSE IF ~is_in_roi(roi, center)
            THEN RecordShot(s0, obj_id, center, frame, "missed", "MISSED")
            ELSE s0
       ELSE s0

\* update, lines 86-128: the loop over the tracked objects, a the
\* trajectory analyzer the velocities are read from
RECURSIVE ShotUpdateLoop(_, _, _, _)
ShotUpdateLoop(sd, tracked_objects, a, frame) ==
    IF tracked_objects = <<>> THEN sd
    ELSE ShotUpdateLoop(
           ShotUpdateOne(sd, Head(tracked_objects).k, Head(tracked_objects).v,
                         get_velocity(a, Head(tracked_objects).k), frame),
           Tail(tracked_objects), a, frame)

RECURSIVE TouchEach(_, _)
TouchEach(d, tracked_objects) ==
    IF tracked_objects = <<>> THEN d
    ELSE TouchEach(Touch(d, tracked_objects[1].k, "IDLE"), Tail(tracked_objects))

\* update, were it to read every identity's state before the enabled check
ShotUpdateAll_touching(sd, tracked_objects, a, frame) ==
    IF ~sd.enabled THEN [sd EXCEPT !.states = TouchEach(@, tracked_objects)]
    ELSE ShotUpdateLoop(sd, tracked_objects, a, frame)

\* update, were a disabled detector to watch the rectangle Roi
ShotUpdateAll_assuming_roi(sd, tracked_objects, a, frame) ==
    [ShotUpdateLoop([sd EXCEPT !.hoop_roi = IF sd.enabled THEN @ ELSE Roi],
                    tracked_objects, a, frame)
        EXCEPT !.hoop_roi = sd.hoop_roi]

\* ShotDetector.update
ShotUpdateAll(sd, tracked_objects, a, frame) ==
    IF ~sd.enabled THEN sd ELSE ShotUpdateLoop(sd, tracked_objects, a, frame)

\* cleanup, were the log entries of the stale identities dropped with their
\* states
ShotCleanupAll_dropping_entries(sd, active_ids) ==
    LET stale == KeySet(sd.states) \ active_ids
    IN [sd EXCEPT !.states = SelectSeq(@, LAMBDA e : e.k \notin stale),
                  !.shot_log = SelectSeq(@, LAMBDA e : e.object_id \notin stale)]

\* ShotDetector.cleanup
ShotCleanupAll(sd, active_ids) ==
    LET stale == KeySet(sd.states) \ active_ids
    IN [sd EXCEPT !.states = SelectSeq(@, LAMBDA e : e.k \notin stale)]

(***************************************************************************)
(* The history of shot scenarios.  For every identity, stage tells how     *)
(* many updates in a row, up to the last one, observed it as a shot        *)
(* unfolds: 1 above the rectangle, 2 then inside it moving downward (its   *)
(* vertical velocity positive, image y growing downward), and              *)
(* then 3 below it or 4 beside it (outside its x-range and not below).     *)
(* start, taken, made and logged are the identity's state, the counters    *)
(* and the length of the log as the first of these updates began.          *)
(***************************************************************************)
NoScenario == [stage |-> 0]

Observe(sd, sc, obj_id, center, velocity) ==
    LET roi == sd.hoop_roi
    IN IF is_above_roi(roi, center)
       THEN [stage |-> 1, start |-> GetOr(sd.states, obj_id, "IDLE"),
             taken |-> sd.shots_taken, made |-> sd.shots_made,
             logged |-> Len(sd.shot_log)]
       ELSE IF sc.stage = 1 /\ is_in_roi(roi, center) /\ velocity[2] > 0
       THEN [sc EXCEPT !.stage = 2]
       ELSE IF sc.stage = 2 /\ is_below_roi(roi, center)
       THEN [sc EXCEPT !.stage = 3]
       ELSE IF sc.stage = 2 /\ ~is_below_roi(roi, center)
               /\ (center[1] < roi[1] \/ center[1] > roi[1] + roi[3])
       THEN [sc EXCEPT !.stage = 4]
       ELSE NoScenario

ScenAfterUpdate(sd, tracked_objects, a) ==
    [id \in Ids |->
        IF ~sd.enabled \/ ~Has(tracked_objects, id) THEN NoScenario
        ELSE Observe(sd, scen[id], id, Get(tracked_objects, id), get_velocity(a, id))]

ScenAfterCleanup(sd, active_ids) ==
    [id \in Ids |->
        IF Has(sd.states, id) /\ id \notin active_ids THEN NoScenario ELSE scen[id]]

SetShot(sd) ==
    /\ hoop_roi' = sd.hoop_roi
    /\ enabled' = sd.enabled
    /\ states' = sd.states
    /\ shots_taken' = sd.shots_taken
    /\ shots_made' = sd.shots_made
    /\ shot_log' = sd.shot_log
    /\ last_shot_result' = sd.last_shot_result

\* One call of ShotDetector.update, for the frame after the last one.
ShotUpdate(tracked_objects, a) ==
    LET sd == ShotUpdateAll(ShotDetectorState, tracked_objects, a, frame_number + 1)
    IN /\ frame_number < MaxShotFrames
       /\ sd.shots_taken <= MaxShots
       /\ SetShot(sd)
       /\ frame_number' = frame_number + 1
       /\ scen' = ScenAfterUpdate(ShotDetectorState, tracked_objects, a)

\* One call of ShotDetector.cleanup.
ShotCleanup(active_ids) ==
    /\ SetShot(ShotCleanupAll(ShotDetectorState, active_ids))
    /\ scen' = ScenAfterCleanup(ShotDetectorState, active_ids)
    /\ UNCHANGED frame_number

\* One call of ShotDetector.set_hoop_roi.
ShotSetHoopRoi(roi) ==
    /\ SetShot(set_hoop_roi(ShotDetectorState, roi))
    /\ scen' = [id \in Ids |-> NoScenario]
    /\ UNCHANGED frame_number

\* The analyzers an update may be handed with the given mapping: for every
\* tracked object the buffer ends with its centroid, alone or after a
\* position 80 pixels above it or below it.
Analyzers(tracked_objects) ==
    LET Buffers(c) == {<<c>>, <<<<c[1], c[2] - 80>>, c>>, <<<<c[1], c[2] + 80>>, c>>}
        ids == KeySet(tracked_objects)
    IN {[TrajInit EXCEPT !.positions = AsDict(f, ids)] :
          f \in {g \in [ids -> UNION {Buffers(c) : c \in HoopPoints}] :
                   \A id \in ids : g[id][Len(g[id])] = Get(tracked_objects, id)}}

\* VideoProcessor.__init__ with the given display, no_shot_detection and
\* hoop_roi arguments: the state after construction.
ProcessorInit(disp, no_shot, roi) ==
    /\ next_id = TrackerInit.next_id
    /\ objects = TrackerInit.objects
    /\ disappeared = TrackerInit.disappeared
    /\ issued = TrackerInit.issued
    /\ removed = TrackerInit.removed
    /\ upd = Locals("init", <<>>, <<>>, <<>>, NoMatch)
    /\ streak = <<>>
    /\ positions = TrajInit.positions
    /\ total_distance = TrajInit.total_distance
    /\ max_speed = TrajInit.max_speed
    /\ frame_count = TrajInit.frame_count
    /\ hoop_roi = ShotDetectorInit(roi).hoop_roi
    /\ enabled = ShotDetectorInit(roi).enabled
    /\ states = ShotDetectorInit(roi).states
    /\ shots_taken = ShotDetectorInit(roi).shots_taken
    /\ shots_made = ShotDetectorInit(roi).shots_made
    /\ shot_log = ShotDetectorInit(roi).shot_log
    /\ last_shot_result = ShotDetectorInit(roi).last_shot_result
    /\ frame_number = 0
    /\ scen = [id \in Ids |-> NoScenario]
    /\ contour_dets = <<>>
    /\ hough_dets = <<>>
    /\ detections = <<>>
    /\ display = disp
    /\ no_shot_detection = no_shot
    /\ pc = "setup"
    /\ call = [op |-> "init", arg |-> {}]

\* The state after construction, the shot detector built with the given
\* hoop_roi argument.
InitWith(roi) == ProcessorInit(TRUE, FALSE, roi)

Init == \E roi \in {None, Roi} : InitWith(roi)

(***************************************************************************)
(* The tracker alone, driven by any lists of detections.                   *)
(***************************************************************************)
TrackerNext ==
    \E input_centroids \in CentroidLists(Points, MaxDets) :
        TrackerUpdate(input_centroids)
          /\ UNCHANGED <<traj_vars, shot_vars, detector_vars, processor_vars, call>>

TrackerSpec == InitWith(None) /\ [][TrackerNext]_vars

(***************************************************************************)
(* The analyzer alone, driven by any mappings and any cleanups.            *)
(***************************************************************************)
TrajNext ==
    \/ \E tracked_objects \in Mappings(Ids, TrajPoints) :
         TrajUpdate(tracked_objects)
           /\ UNCHANGED <<tracker_vars, shot_vars, detector_vars, processor_vars, call>>
    \/ \E active_ids \in SUBSET Ids :
         TrajCleanup(active_ids)
           /\ UNCHANGED <<tracker_vars, shot_vars, detector_vars, processor_vars, call>>

TrajSpec == InitWith(None) /\ [][TrajNext]_vars

(***************************************************************************)
(* The shot detector alone, driven by any mappings, analyzers, cleanups    *)
(* and rectangle settings; its getters assign nothing.                     *)
(***************************************************************************)
ShotRead == UNCHANGED vars

ShotNext ==
    \/ \E tracked_objects \in Mappings(Ids, HoopPoints) :
         \E a \in Analyzers(tracked_objects) :
           ShotUpdate(tracked_objects, a)
             /\ UNCHANGED <<tracker_vars, traj_vars, detector_vars, processor_vars, call>>
    \/ \E active_ids \in SUBSET Ids :
         ShotCleanup(active_ids)
           /\ UNCHANGED <<tracker_vars, traj_vars, detector_vars, processor_vars, call>>
    \/ \E roi \in {None, Roi} :
         ShotSetHoopRoi(roi)
           /\ UNCHANGED <<tracker_vars, traj_vars, detector_vars, processor_vars, call>>
    \/ ShotRead

ShotSpec == Init /\ [][ShotNext]_vars

(***************************************************************************)
(* The shot detector over a few updates, with the arguments of its last    *)
(* call kept in call: the mapping (arg) and the velocity the analyzer      *)
(* reported for every identity of it (vel).  Two histories ride along:     *)
(* seen, for every identity the frames of the last update that found it    *)
(* above the rectangle while IDLE and of the last one that found it inside *)
(* and moving downward while ABOVE_HOOP (0: none, or none since its last   *)
(* shot or its cleanup); preceded, for every log entry, what seen held for *)
(* its identity when the update that logged it began.                      *)
(***************************************************************************)
NotSeen == [above |-> 0, inside |-> 0]

Seen == IF "seen" \in DOMAIN call THEN call.seen ELSE [id \in Ids |-> NotSeen]

Preceded == IF "preceded" \in DOMAIN call THEN call.preceded ELSE <<>>

Velocities(tracked_objects, a) ==
    [id \in KeySet(tracked_objects) |-> get_velocity(a, id)]

SeenAfterUpdate(sd, after, tracked_objects, a, frame) ==
    [id \in Ids |->
        IF ~sd.enabled \/ ~Has(tracked_objects, id) THEN Seen[id]
        ELSE IF \E i \in (Len(sd.shot_log) + 1)..Len(after.shot_log) :
                    after.shot_log[i].object_id = id
        THEN NotSeen
        ELSE IF /\ GetOr(sd.states, id, "IDLE") = "IDLE"
                /\ is_above_roi(sd.hoop_roi, Get(tracked_objects, id))
        THEN [above |-> frame, inside |-> 0]
        ELSE IF /\ GetOr(sd.states, id, "IDLE") = "ABOVE_HOOP"
                /\ is_in_roi(sd.hoop_roi, Get(tracked_objects, id))
                /\ get_velocity(a, id)[2] > 0
        THEN [Seen[id] EXCEPT !.inside = frame]
        ELSE Seen[id]]

PrecededAfterUpdate(sd, after) ==
    Preceded \o [i \in 1..(Len(after.shot_log) - Len(sd.shot_log)) |->
                    Seen[after.shot_log[Len(sd.shot_log) + i].object_id]]

\* The analyzers an update may be handed with the given mapping over
\* StepPoints: every identity at rest (velocity (0, 0)), arrived from 80
\* higher (vertical velocity 80, downward) or, inside the rectangle, arrived
\* from 80 lower (vertical velocity -80, upward).
StepAnalyzers(tracked_objects) ==
    LET Buffers(c) == {<<c>>, <<<<c[1], c[2] - 80>>, c>>}
                        \cup (IF is_in_roi(Roi, c)
                              THEN {<<<<c[1], c[2] + 80>>, c>>} ELSE {})
        ids == KeySet(tracked_objects)
    IN {[TrajInit EXCEPT !.positions = AsDict(f, ids)] :
          f \in {g \in [ids -> UNION {Buffers(c) : c \in StepPoints}] :
                   \A id \in ids : g[id][Len(g[id])] = Get(tracked_objects, id)}}

StepUpdate(tracked_objects, a) ==
    LET after == ShotUpdateAll(ShotDetectorState, tracked_objects, a, frame_number + 1)
    IN /\ frame_number < MaxStepFrames
       /\ ShotUpdate(tracked_objects, a)
       /\ call' = [op |-> "update", arg |-> tracked_objects,
                   vel |-> Velocities(tracked_objects, a),
                   seen |-> SeenAfterUpdate(ShotDetectorState, after,
                                            tracked_objects, a, frame_number + 1),
                   preceded |-> PrecededAfterUpdate(ShotDetectorState, after)]

StepCleanup(active_ids) ==
    /\ ShotCleanup(active_ids)
    /\ call' = [op |-> "cleanup", arg |-> active_ids, vel |-> <<>>,
                seen |-> [id \in Ids |->
                             IF Has(states, id) /\ id \notin active_ids
                             THEN NotSeen ELSE Seen[id]],
                preceded |-> Preceded]

StepSetHoopRoi(roi) ==
    /\ ShotSetHoopRoi(roi)
    /\ call' = [op |-> "set_hoop_roi", arg |-> roi, vel |-> <<>>,
                seen |-> Seen, preceded |-> Preceded]

StepNext ==
    \/ \E tracked_objects \in Mappings(Ids, StepPoints) :
         \E a \in StepAnalyzers(tracked_objects) :
           StepUpdate(tracked_objects, a)
             /\ UNCHANGED <<tracker_vars, traj_vars, detector_vars, processor_vars>>
    \/ \E active_ids \in SUBSET Ids :
         StepCleanup(active_ids)
           /\ UNCHANGED <<tracker_vars, traj_vars, detector_vars, processor_vars>>
    \/ \E roi \in {None, Roi} :
         StepSetHoopRoi(roi)
           /\ UNCHANGED <<tracker_vars, traj_vars, detector_vars, processor_vars>>

StepSpec == Init /\ [][StepNext]_vars

(***************************************************************************)
(* The detector's fusion alone, the two stages finding any lists.          *)
(***************************************************************************)
FuseNext ==
    \E contour \in DetectionLists(ContourDets, MaxDets) :
      \E hough \in DetectionLists(HoughDets, MaxDets) :
        Detect(contour, hough)
          /\ UNCHANGED <<tracker_vars, traj_vars, shot_vars, processor_vars, call>>

FuseSpec == InitWith(None) /\ [][FuseNext]_vars

(***************************************************************************)
(* The two analyzers together, as _process_frame drives them (lines 92-96: *)
(* the same mapping to both, the shot detector reading the velocities of   *)
(* the analyzer just updated), each cleaned with any set of identities and *)
(* read through its accessors for any identity.                            *)
(***************************************************************************)
\* The positions the mappings of these runs are drawn from: above the hoop
\* rectangle and inside it.
AnalysisPoints == {<<60, 0>>, <<60, 80>>}

\* _process_frame, lines 92-96
Analyze(tracked_objects) ==
    LET a == TrajUpdateAll(TrajState, tracked_objects)
        sd == ShotUpdateAll(ShotDetectorState, tracked_objects, a, frame_number + 1)
    IN /\ frame_number < MaxAnalysisFrames
       /\ SetTraj(a)
       /\ SetShot(sd)
       /\ frame_number' = frame_number + 1
       /\ scen' = ScenAfterUpdate(ShotDetectorState, tracked_objects, a)
       /\ call' = [op |-> "update", arg |-> KeySet(tracked_objects)]

\* self.positions.get(obj_id), were it self.positions[obj_id]: the
\* defaultdict stores its default under a missing key
DictGet_indexing(d, key, default) == Touch(d, key, default)

\* The dictionary after d.get(key) or d.get(key, default): get returns the
\* default for a missing key and stores nothing.
DictGet(d, key, default) == d

\* The read-only accessors of the two analyzers.
Getters ==
    {"get_velocity", "get_speed", "get_acceleration", "get_trail_points",
     "fit_trajectory", "get_summary",
     "get_recent_shot_result", "get_stats", "shooting_percentage"}

\* The trajectory analyzer after the given accessor was called for obj_id:
\* one positions.get in the first five, four gets in get_summary; the shot
\* detector's three accessors do not reach the analyzer.
TrajAfterGetter(getter, a, obj_id) ==
    IF getter \in {"get_velocity", "get_speed", "get_acceleration",
                   "get_trail_points", "fit_trajectory"}
    THEN [a EXCEPT !.positions = DictGet(@, obj_id, <<>>)]
    ELSE IF getter = "get_summary"
    THEN [a EXCEPT !.positions = DictGet(@, obj_id, <<>>),
                   !.frame_count = DictGet(@, obj_id, 0),
                   !.total_distance = DictGet(@, obj_id, 0),
                   !.max_speed = DictGet(@, obj_id, 0)]
    ELSE a

\* The shot detector after the given accessor was called: its three
\* accessors read last_shot_result, the counters and the log and assign
\* nothing; the analyzer's accessors do not reach the detector.
ShotAfterGetter(getter, sd) == sd

\* One call of a read-only accessor, for any identity.
Query(getter, obj_id) ==
    /\ SetTraj(TrajAfterGetter(getter, TrajState, obj_id))
    /\ SetShot(ShotAfterGetter(getter, ShotDetectorState))
    /\ UNCHANGED <<frame_number, scen>>
    /\ call' = [op |-> "getter", arg |-> {obj_id}]

AnalysisNext ==
    \/ \E tracked_objects \in Mappings(Ids, AnalysisPoints) :
         Analyze(tracked_objects)
           /\ UNCHANGED <<tracker_vars, detector_vars, processor_vars>>
    \/ \E active_ids \in SUBSET Ids :
         /\ TrajCleanup(active_ids)
         /\ call' = [op |-> "trajectory.cleanup", arg |-> active_ids]
         /\ UNCHANGED <<tracker_vars, shot_vars, detector_vars, processor_vars>>
    \/ \E active_ids \in SUBSET Ids :
         /\ ShotCleanup(active_ids)
         /\ call' = [op |-> "shot_detector.cleanup", arg |-> active_ids]
         /\ UNCHANGED <<tracker_vars, traj_vars, detector_vars, processor_vars>>
    \/ \E getter \in Getters, obj_id \in Ids :
         Query(getter, obj_id)
           /\ UNCHANGED <<tracker_vars, detector_vars, processor_vars>>

AnalysisSpec == Init /\ [][AnalysisNext]_vars

(***************************************************************************)
(* VideoProcessor: the pipeline of run(), the hoop set up on the first     *)
(* frame and every frame read passed through _process_frame.               *)
(***************************************************************************)
\* What the two detector stages find on a frame of the run: nothing, a ball
\* above the hoop, inside it or below it, a ball above and one inside, or a
\* ball above that both stages see (fused).
Scenes ==
    LET c_above == Detection(<<60, 0>>, 40, 60, "contour")
        h_above == Detection(<<60, 20>>, 20, 50, "hough")
        h_inside == Detection(<<60, 80>>, 40, 50, "hough")
        h_below == Detection(<<60, 160>>, 40, 50, "hough")
    IN {<< <<>>, <<>> >>, << <<c_above>>, <<>> >>, << <<>>, <<h_inside>> >>,
        << <<>>, <<h_below>> >>, << <<c_above>>, <<h_inside>> >>,
        << <<c_above>>, <<h_above>> >>}

\* What cv2.selectROI may return: a rectangle drawn, or (0, 0, 0, 0) on
\* cancelling.
Selections == {Roi, <<0, 0, 0, 0>>}

\* VideoProcessor._setup_hoop_roi, called once before the first frame
SetupHoopRoi(selected) ==
    /\ pc = "setup"
    /\ pc' = "frames"
    /\ IF no_shot_detection \/ hoop_roi # None
       THEN UNCHANGED <<shot_vars, no_shot_detection>>
       ELSE IF ~display
       THEN no_shot_detection' = TRUE /\ UNCHANGED shot_vars
       ELSE IF selected[3] > 0 /\ selected[4] > 0
       THEN /\ SetShot(set_hoop_roi(ShotDetectorState, selected))
            /\ UNCHANGED <<frame_number, scen, no_shot_detection>>
       ELSE no_shot_detection' = TRUE /\ UNCHANGED shot_vars
    /\ UNCHANGED <<tracker_vars, traj_vars, detector_vars, display, call>>

\* The tracker after an update call, r one of the outcomes of update.
SetTracker(before, r) ==
    /\ next_id' = r.t.next_id
    /\ objects' = r.t.objects
    /\ disappeared' = r.t.disappeared
    /\ issued' = r.t.issued
    /\ removed' = r.t.removed
    /\ upd' = r.loc
    /\ streak' = Streak(before, r.loc, r.t)

\* _process_frame, lines 99-102: the cleanups, were they left out
Purge_skipped(a, sd, active_ids, shots_on) == [a |-> a, sd |-> sd]

\* _process_frame, lines 99-102: the analyzer and, unless shot detection is
\* off, the shot detector purged of the identities not in active_ids
Purge(a, sd, active_ids, shots_on) ==
    [a |-> TrajCleanupAll(a, active_ids),
     sd |-> IF shots_on THEN ShotCleanupAll(sd, active_ids) ELSE sd]

\* _process_frame, were the shot detector updated before the analyzer: it
\* reads the velocities of the frame before
ProcessFrame_shot_first(scene) ==
    LET found == fuse_detections(scene[1], scene[2])
        input_centroids == [i \in 1..Len(found) |-> found[i].center]
    IN \E r \in update(TrackerState, input_centroids) :
         LET tracked == r.t.objects
             a == TrajUpdateAll(TrajState, tracked)
             sd == IF ~no_shot_detection
                   THEN ShotUpdateAll(ShotDetectorState, tracked, TrajState,
                                      frame_number + 1)
                   ELSE ShotDetectorState
             purged == Purge(a, sd, KeySet(tracked), ~no_shot_detection)
         IN /\ pc = "frames"
            /\ frame_number < MaxRunFrames
            /\ r.t.next_id <= MaxIds
            /\ frame_number' = frame_number + 1
            /\ Detect(scene[1], scene[2])
            /\ SetTracker(TrackerState, r)
            /\ SetTraj(purged.a)
            /\ SetShot(purged.sd)
            /\ scen' = IF no_shot_detection THEN scen
                       ELSE ScenAfterUpdate(ShotDetectorState, tracked, a)
            /\ UNCHANGED <<processor_vars, call>>

\* VideoProcessor.run, lines 169-173, and _process_frame: one frame read
\* and processed (the drawing calls assign nothing).
ProcessFrame(scene) ==
    LET found == fuse_detections(scene[1], scene[2])
        input_centroids == [i \in 1..Len(found) |-> found[i].center]
    IN \E r \in update(TrackerState, input_centroids) :
         LET tracked == r.t.objects
             a == TrajUpdateAll(TrajState, tracked)
             sd == IF ~no_shot_detection
                   THEN ShotUpdateAll(ShotDetectorState, tracked, a, frame_number + 1)
                   ELSE ShotDetectorState
             purged == Purge(a, sd, KeySet(tracked), ~no_shot_detection)
         IN /\ pc = "frames"
            /\ frame_number < MaxRunFrames
            /\ r.t.next_id <= MaxIds
            /\ frame_number' = frame_number + 1
            /\ Detect(scene[1], scene[2])
            /\ SetTracker(TrackerState, r)
            /\ SetTraj(purged.a)
            /\ SetShot(purged.sd)
            /\ scen' = IF no_shot_detection THEN scen
                       ELSE ScenAfterUpdate(ShotDetectorState, tracked, a)
            /\ UNCHANGED <<processor_vars, call>>

PipelineInit ==
    \E disp \in BOOLEAN : \E no_shot \in BOOLEAN : \E roi \in {None, Roi} :
        ProcessorInit(disp, no_shot, roi)

PipelineNext ==
    \/ \E selected \in Selections : SetupHoopRoi(selected)
    \/ \E scene \in Scenes : ProcessFrame(scene)

PipelineSpec == PipelineInit /\ [][PipelineNext]_vars

(***************************************************************************)
(* Properties of CentroidTracker                                           *)
(***************************************************************************)
Range(f) == {f[i] : i \in DOMAIN f}

\* C1: identities are issued in strictly increasing order and never reused:
\* every identity register() hands out is greater than every one handed out
\* before it, and an identity deregister() removed is never again a key of
\* the identity->centroid map.
C1_IdsIncreasingNeverReused ==
    /\ \A i, j \in 1..Len(issued) : i < j => issued[i] < issued[j]
    /\ removed \cap KeySet(objects) = {}

\* the last update registered a new identity after an earlier update had
\* deregistered one
C1_Witness ==
    /\ upd.path \in {"no_objects", "associate"}
    /\ \E id \in KeySet(objects) : \E r \in removed :
         /\ id \notin Range(upd.object_ids)
         /\ r \notin Range(upd.object_ids)
         /\ r < id

\* C2, as claimed: an update that finds the identity->centroid map empty
\* stores the i-th input centroid under identity i (counting from 0), the
\* map holding identities 0..N-1 in input order.
C2_EmptyMapYieldsZeroToN ==
    upd.path = "no_objects" =>
        objects = [i \in 1..Len(upd.input_centroids) |->
                      [k |-> i - 1, v |-> upd.input_centroids[i]]]

\* C2, amended: an update that finds the map empty stores the i-th input
\* centroid under identity b+i (counting from 0), b being next_id as the call
\* began, in input order; these are 0..N-1 when no identity was issued before
\* the call.
C2_EmptyMapYieldsNextIds ==
    upd.path = "no_objects" =>
        LET N == Len(upd.input_centroids)
            b == next_id - N
        IN /\ objects = [i \in 1..N |-> [k |-> b + i - 1, v |-> upd.input_centroids[i]]]
           /\ Len(issued) = N => Keys(objects) = [i \in 1..N |-> i - 1]

\* a single centroid registered into a map that deregistrations had emptied
C2_Witness ==
    /\ upd.path = "no_objects"
    /\ next_id > Len(upd.input_centroids)
    /\ Len(objects) = Len(upd.input_centroids)

\* The rows (existing identities) within the association distance of the
\* detection in column col of the last update.
RowsInRange(col) ==
    {row \in 1..Len(upd.object_ids) :
        euclidean_distance(upd.object_centroids[row], upd.input_centroids[col])
            <= MAX_TRACK_DISTANCE}

\* The detection in column col was re-associated to the identity in row row.
Reassociated(row, col) ==
    /\ <<row, col>> \in Range(upd.matches)
    /\ Has(objects, upd.object_ids[row])
    /\ Get(objects, upd.object_ids[row]) = upd.input_centroids[col]

\* C3, as claimed: a detection within the association distance of exactly
\* one existing identity is re-associated to that identity.
C3_SoleIdentityInRangeMatches ==
    upd.path = "associate" =>
        \A col \in 1..Len(upd.input_centroids) : \A row \in 1..Len(upd.object_ids) :
            RowsInRange(col) = {row} => Reassociated(row, col)

\* C3, amended: a detection within the association distance of exactly one
\* existing identity is re-associated to that identity, provided every other
\* detection of the same update is strictly farther from that identity.
C3_SoleIdentityClosestDetectionMatches ==
    upd.path = "associate" =>
        \A col \in 1..Len(upd.input_centroids) : \A row \in 1..Len(upd.object_ids) :
            (/\ RowsInRange(col) = {row}
             /\ \A other \in 1..Len(upd.input_centroids) :
                  other # col =>
                    euclidean_distance(upd.object_centroids[row], upd.input_centroids[other])
                      > euclidean_distance(upd.object_centroids[row], upd.input_centroids[col]))
            => Reassociated(row, col)

\* with two identities tracked and two detections, a detection in range of
\* one identity only, the other detection farther from that identity, was
\* re-associated to it
C3_Witness ==
    /\ upd.path = "associate"
    /\ Len(upd.object_ids) = 2
    /\ Len(upd.input_centroids) = 2
    /\ \E col \in 1..2 : \E row \in 1..2 :
         /\ RowsInRange(col) = {row}
         /\ euclidean_distance(upd.object_centroids[row], upd.input_centroids[3 - col])
              > euclidean_distance(upd.object_centroids[row], upd.input_centroids[col])
         /\ Reassociated(row, col)

\* C4: an identity is in the tracker map exactly as long as the updates in
\* a row that left it unmatched number at most MAX_DISAPPEARED: with exactly
\* MAX_DISAPPEARED it is retained, with one more it is deregistered, whether
\* the updates had no detections or detections matched to others.
C4_RetainedAtMaxDroppedAfter ==
    \A id \in DOMAIN streak :
        /\ streak[id] <= MAX_DISAPPEARED + 1
        /\ Has(objects, id) <=> streak[id] <= MAX_DISAPPEARED

\* the last update had detections, all matched to others, and dropped an
\* identity it left unmatched for the (MAX_DISAPPEARED+1)-th time in a row
C4_Witness ==
    /\ upd.path = "associate"
    /\ \E id \in Range(upd.object_ids) :
         streak[id] = MAX_DISAPPEARED + 1 /\ ~Has(objects, id)

\* C5: the association of one update is one-to-one: no existing identity
\* (row) is matched to two detections and no detection (column) to two
\* identities, and the identities updated are those of the matched rows.
C5_AssociationOneToOne ==
    /\ \A i, j \in 1..Len(upd.matches) :
         i # j => /\ upd.matches[i][1] # upd.matches[j][1]
                  /\ upd.matches[i][2] # upd.matches[j][2]
    /\ Len(upd.assignments) = Len(upd.matches)
    /\ upd.used_rows = {upd.matches[i][1] : i \in 1..Len(upd.matches)}
    /\ upd.used_cols = {upd.matches[i][2] : i \in 1..Len(upd.matches)}

\* two identities were matched to two detections in one update
C5_Witness == Len(upd.matches) = 2 /\ Len(upd.object_ids) = 2

(***************************************************************************)
(* Properties of TrajectoryAnalyzer                                        *)
(***************************************************************************)
\* The last n items of the sequence q, in order.
MostRecent(q, n) == IF Len(q) <= n THEN q ELSE SubSeq(q, Len(q) - n + 1, Len(q))

\* C6: whatever the calls, every buffered position history has at most
\* TRAJECTORY_HISTORY_LENGTH items, and an update that records a centroid for
\* an identity leaves its buffer holding the most recent
\* TRAJECTORY_HISTORY_LENGTH of the earlier buffer followed by that centroid,
\* in arrival order: a full buffer loses its oldest position.
C6_HistoryBoundedOldestEvicted ==
    [][\A id \in KeySet(positions') :
         LET after == Get(positions', id)
             before == GetOr(positions, id, <<>>)
         IN /\ Len(after) <= TRAJECTORY_HISTORY_LENGTH
            /\ Get(frame_count', id) = GetOr(frame_count, id, 0) + 1
                 => /\ Len(after) >= 1
                    /\ after = MostRecent(Append(before, after[Len(after)]),
                                          TRAJECTORY_HISTORY_LENGTH)]_vars

\* an identity has been recorded more often than the buffer holds and its
\* buffer is full, of positions that differ
C6_Witness ==
    \E id \in KeySet(positions) :
        /\ Get(frame_count, id) > TRAJECTORY_HISTORY_LENGTH
        /\ Len(Get(positions, id)) = TRAJECTORY_HISTORY_LENGTH
        /\ Get(positions, id)[1] # Get(positions, id)[2]

(***************************************************************************)
(* Properties of ShotDetector                                              *)
(***************************************************************************)
\* C7: shots_taken and shots_made never decrease, whatever the operation
\* (update, cleanup, set_hoop_roi, a getter).
C7_CountersNeverDecrease ==
    [][shots_taken' >= shots_taken /\ shots_made' >= shots_made]_vars

\* shots were counted and the rectangle was then taken away
C7_Witness == shots_made >= 1 /\ shots_taken > shots_made /\ hoop_roi = None

\* The log entries appended since the scenario sc began, and those among
\* them of the identity id.
LoggedSince(sc) == SubSeq(shot_log, sc.logged + 1, Len(shot_log))
LoggedFor(sc, id) == SelectSeq(LoggedSince(sc), LAMBDA e : e.object_id = id)

\* The three updates of the scenario sc of identity id appended exactly one
\* log entry for it, with the given result; and, no other identity having
\* completed a shot in them, exactly that entry, shots_taken rising by 1 and
\* shots_made by made.
OneShot(sc, id, result, made) ==
    /\ Len(LoggedFor(sc, id)) = 1
    /\ LoggedFor(sc, id)[1].result = result
    /\ Len(LoggedSince(sc)) = Len(LoggedFor(sc, id)) =>
         /\ shots_taken = sc.taken + 1
         /\ shots_made = sc.made + made

\* C8, as claimed: an identity observed by three successive updates above
\* the rectangle, then inside it moving downward, then below it, has
\* shots_taken and shots_made raised by exactly 1 each and exactly one log
\* entry appended, a "scored" one.
C8_ScoredScenario ==
    \A id \in Ids : scen[id].stage = 3 => OneShot(scen[id], id, "scored", 1)

\* C8, amended: the same, for an identity that is not in IN_HOOP as the
\* first of the three updates begins (it is IDLE, as a new identity is, or
\* ABOVE_HOOP); the entry carries the frame and the centroid of the third
\* update.
C8_ScoredScenarioNotMidShot ==
    \A id \in Ids :
        scen[id].stage = 3 /\ scen[id].start # "IN_HOOP" =>
            /\ OneShot(scen[id], id, "scored", 1)
            /\ LoggedFor(scen[id], id)[1].frame = frame_number
            /\ is_below_roi(hoop_roi, LoggedFor(scen[id], id)[1].position)
            /\ last_shot_result[2] = frame_number

\* an identity went above, inside moving downward and below, starting from
\* IDLE, and a shot was scored
C8_Witness ==
    \E id \in Ids :
        /\ scen[id].stage = 3
        /\ scen[id].start = "IDLE"
        /\ shots_made = 1
        /\ Len(shot_log) = 1

\* C9: an identity observed by three successive updates above the
\* rectangle, then inside it moving downward, then beside it (not below),
\* has shots_taken raised by exactly 1, shots_made unchanged and exactly one
\* log entry appended, a "missed" one.
C9_MissedScenario ==
    \A id \in Ids : scen[id].stage = 4 => OneShot(scen[id], id, "missed", 0)

\* an identity went above, inside moving downward and out sideways, and a
\* shot was missed
C9_Witness ==
    \E id \in Ids :
        /\ scen[id].stage = 4
        /\ scen[id].start = "IDLE"
        /\ shots_taken = 1 /\ shots_made = 0
        /\ Len(shot_log) = 1 /\ shot_log[1].result = "missed"

\* C10: between calls every stored per-identity state is IDLE, ABOVE_HOOP
\* or IN_HOOP, never SCORED or MISSED.
C10_NoTransientStateStored ==
    \A i \in 1..Len(states) : states[i].v \in {"IDLE", "ABOVE_HOOP", "IN_HOOP"}

\* the last update counted a shot of an identity, whose stored state is IDLE
C10_Witness ==
    /\ Len(shot_log) >= 1
    /\ shot_log[Len(shot_log)].frame = frame_number
    /\ Has(states, shot_log[Len(shot_log)].object_id)
    /\ Get(states, shot_log[Len(shot_log)].object_id) = "IDLE"

(***************************************************************************)
(* Properties of BallDetector                                              *)
(***************************************************************************)
\* C16: fusion passes one-sided input through: with no Hough detections the
\* list returned is the contour list (same elements, same order, same method
\* tags), with no contour detections it is the Hough list, and with neither
\* it is the empty list.
C16_FusionPassThrough ==
    /\ hough_dets = <<>> => detections = contour_dets
    /\ contour_dets = <<>> => detections = hough_dets
    /\ contour_dets = <<>> /\ hough_dets = <<>> => detections = <<>>

\* two contour detections and no Hough detection were returned as they came
C16_Witness ==
    /\ hough_dets = <<>>
    /\ Len(contour_dets) = 2
    /\ contour_dets[1] # contour_dets[2]
    /\ detections = contour_dets
    /\ \A i \in 1..Len(detections) : detections[i].method = "contour"

(***************************************************************************)
(* Properties of the pipeline                                              *)
(***************************************************************************)
\* C11: at the end of every processed frame the identities holding state in
\* the trajectory analyzer are exactly those in the tracker map (every one
\* has a position buffer and a frame count, none outside has a distance or a
\* top speed), and so are those holding a shot state when shot detection is
\* on: an identity's state is purged in the frame the tracker drops it.
C11_StateOnlyForLiveIdentities ==
    pc = "frames" =>
        /\ KeySet(positions) = KeySet(objects)
        /\ KeySet(frame_count) = KeySet(objects)
        /\ KeySet(total_distance) \subseteq KeySet(objects)
        /\ KeySet(max_speed) \subseteq KeySet(objects)
        /\ ~no_shot_detection => KeySet(states) = KeySet(objects)

\* with shot detection on, the last frame's update dropped an identity
\* that had been recorded for some frames, another identity staying
\* tracked, and nothing is stored for the dropped one
C11_Witness ==
    /\ pc = "frames"
    /\ ~no_shot_detection
    /\ objects # <<>>
    /\ KeySet(states) = KeySet(objects)
    /\ \E id \in Range(upd.object_ids) :
         /\ id \in removed
         /\ streak[id] = MAX_DISAPPEARED + 1
         /\ ~Has(positions, id) /\ ~Has(total_distance, id) /\ ~Has(states, id)

(***************************************************************************)
(* Properties of the analyzers' cleanup and of their queries               *)
(***************************************************************************)
\* The dictionary d holds for the identity id after the step what it held
\* before it, or nothing before and after.
Kept(d_after, d_before, id) ==
    /\ Has(d_after, id) <=> Has(d_before, id)
    /\ Has(d_before, id) => Get(d_after, id) = Get(d_before, id)

\* C12: cleanup(active_ids) of the trajectory analyzer leaves no positions,
\* total distance, top speed or frame count of an identity outside
\* active_ids and leaves those of every identity in active_ids as they were;
\* cleanup(active_ids) of the shot detector does so with the shot states,
\* and leaves shots_taken, shots_made, the shot log and the last result as
\* they were.
C12_CleanupPurgesAbsentKeepsPresent ==
    [][/\ call'.op = "trajectory.cleanup" =>
            \A id \in Ids :
                IF id \in call'.arg
                THEN /\ Kept(positions', positions, id)
                     /\ Kept(total_distance', total_distance, id)
                     /\ Kept(max_speed', max_speed, id)
                     /\ Kept(frame_count', frame_count, id)
                ELSE /\ ~Has(positions', id) /\ ~Has(total_distance', id)
                     /\ ~Has(max_speed', id) /\ ~Has(frame_count', id)
       /\ call'.op = "shot_detector.cleanup" =>
            /\ \A id \in Ids :
                 IF id \in call'.arg THEN Kept(states', states, id)
                 ELSE ~Has(states', id)
            /\ UNCHANGED <<shots_taken, shots_made, shot_log, last_shot_result>>
      ]_vars

\* the last call was a cleanup of the shot detector that purged an identity
\* and kept another in ABOVE_HOOP or IN_HOOP, after a shot had been counted,
\* the analyzer holding two positions of the identity kept
C12_Witness ==
    /\ call.op = "shot_detector.cleanup"
    /\ Cardinality(call.arg) = 1
    /\ shots_taken >= 1
    /\ \E id \in call.arg :
         /\ Has(states, id) /\ Get(states, id) # "IDLE"
         /\ Has(positions, id) /\ Len(Get(positions, id)) >= 2
    /\ \E id \in Ids \ call.arg : LoggedFor([logged |-> 0], id) # <<>> /\ ~Has(states, id)

\* The last position of a buffer.
Last(q) == q[Len(q)]

\* C13: after any calls, get_velocity(id) is (0, 0) when fewer than 2
\* positions are buffered for id and otherwise the last buffered position
\* minus the one before it; and an update that records a centroid for an
\* identity with a position already buffered leaves get_velocity at that
\* centroid minus the position recorded before it, also when the buffer was
\* full and lost its oldest position.
C13_VelocityIsLastDifference ==
    [][\A id \in Ids :
         LET after == GetOr(positions', id, <<>>)
             before == GetOr(positions, id, <<>>)
             velocity == get_velocity(TrajState', id)
         IN /\ Len(after) < 2 => velocity = <<0, 0>>
            /\ Len(after) >= 2 =>
                 /\ velocity[1] = after[Len(after)][1] - after[Len(after) - 1][1]
                 /\ velocity[2] = after[Len(after)][2] - after[Len(after) - 1][2]
            /\ (/\ GetOr(frame_count', id, 0) = GetOr(frame_count, id, 0) + 1
                /\ Len(before) >= 1) =>
                 /\ velocity[1] = Last(after)[1] - Last(before)[1]
                 /\ velocity[2] = Last(after)[2] - Last(before)[2]
      ]_vars

\* an identity recorded more often than its buffer holds has a velocity
\* that is not zero, while another identity has one position and velocity 0
C13_Witness ==
    /\ \E id \in KeySet(positions) :
         /\ Get(frame_count, id) > TRAJECTORY_HISTORY_LENGTH
         /\ get_velocity(TrajState, id) # <<0, 0>>
         /\ get_velocity(TrajState, id)[1] > 0
    /\ \E id \in KeySet(positions) :
         Len(Get(positions, id)) = 1 /\ get_velocity(TrajState, id) = <<0, 0>>

\* C14: fit_trajectory(id) evaluates to the "no fit" result None whenever
\* fewer than 3 positions are buffered for id (none at all included) or the
\* x coordinates of the buffered positions span less than 1 pixel.
C14_NoFitOnFewOrVerticalPoints ==
    \A id \in Ids :
        LET buffered == GetOr(positions, id, <<>>)
        IN (\/ Len(buffered) < 3
            \/ \A i, j \in 1..Len(buffered) : buffered[i][1] - buffered[j][1] < 1)
           => fit_trajectory(TrajState, id) = None

\* one identity has three positions buffered on a vertical line, not all
\* the same, and no fit, while another has two positions and no fit
C14_Witness ==
    /\ \E id \in KeySet(positions) :
         LET buffered == Get(positions, id)
         IN /\ Len(buffered) = 3
            /\ \A i \in 1..3 : buffered[i][1] = buffered[1][1]
            /\ buffered[1] # buffered[2]
            /\ fit_trajectory(TrajState, id) = None
    /\ \E id \in KeySet(positions) :
         Len(Get(positions, id)) = 2 /\ fit_trajectory(TrajState, id) = None

(***************************************************************************)
(* C15                                                                     *)
(***************************************************************************)
\* the float f is exactly the fraction num / den
IsRatio(f, num, den) ==
    IF num = 0 THEN f = Zero
    ELSE /\ f # Zero
         /\ IF f.exp <= 0
            THEN MulSmall(f.man, den) = ShiftLeft(NatBits(num), -f.exp)
            ELSE ShiftLeft(MulSmall(f.man, den), f.exp) = NatBits(num)

\* the float f differs from the fraction num / den, num > 0, by no more
\* than num / den / 2^k
WithinRelative(f, num, den, k) ==
    /\ f # Zero
    /\ f.exp <= 0
    /\ LET scaled == ShiftLeft(NatBits(num), -f.exp)
       IN LessEq(ShiftLeft(Distance(MulSmall(f.man, den), scaled), k), scaled)

RECURSIVE Gcd(_, _)
Gcd(a, b) == IF b = 0 THEN a ELSE Gcd(b, a % b)

\* made / taken has a finite binary expansion
Dyadic(made, taken) ==
    \E k \in 0..30 : taken \div Gcd(made, taken) = 2 ^ k

\* C15 as stated: shooting_percentage is 0 when shots_taken = 0 and exactly
\* 100 * shots_made / shots_taken otherwise, in every reachable state of the
\* shot state machine.
C15_PercentageExact ==
    IsRatio(shooting_percentage(ShotDetectorState), 100 * shots_made,
            IF shots_taken = 0 THEN 1 ELSE shots_taken)

\* C15 amended: shooting_percentage is 0.0 when shots_taken = 0; otherwise it
\* is the float (shots_made / shots_taken) * 100.0, which is exactly
\* 100 * shots_made / shots_taken when shots_made / shots_taken has a finite
\* binary expansion, and in every case within 2^-51 of it, relatively.
C15_PercentageExactWhenRepresentable ==
    LET pct == shooting_percentage(ShotDetectorState)
    IN /\ shots_taken = 0 => pct = Zero
       /\ shots_taken > 0 /\ shots_made = 0 => pct = Zero
       /\ shots_taken > 0 /\ shots_made > 0 =>
              /\ Dyadic(shots_made, shots_taken) =>
                     IsRatio(pct, 100 * shots_made, shots_taken)
              /\ WithinRelative(pct, 100 * shots_made, shots_taken, 51)

\* one shot made of three taken: the quotient has no finite binary expansion
C15_Witness ==
    /\ shots_taken = 3
    /\ shots_made = 1
    /\ ~IsRatio(shooting_percentage(ShotDetectorState), 100, 3)

(***************************************************************************)
(* C17, C18, C19                                                           *)
(***************************************************************************)
\* C19: the enabled flag is true exactly when a hoop rectangle is
\* configured, after construction and after any sequence of set_hoop_roi
\* calls (and updates and cleanups between them).
C19_EnabledIffRectangle == enabled <=> hoop_roi # None

\* the rectangle was taken away after a shot was counted: disabled, and not
\* to be mistaken for enabled without shots
C19_Witness == ~enabled /\ hoop_roi = None /\ shots_taken > 0

\* C17: while no hoop rectangle is configured, an update changes neither the
\* per-identity states, nor shots_taken, nor shots_made, nor the shot log,
\* nor the last result, whatever mapping, velocities and frame number it is
\* passed.
C17_UpdateNoOpWithoutRectangle ==
    [][hoop_roi = None /\ frame_number' = frame_number + 1 =>
           UNCHANGED <<states, shots_taken, shots_made, shot_log,
                       last_shot_result>>]_vars

\* no rectangle, updates made, and an identity left in mid-shot with a shot
\* counted
C17_Witness ==
    /\ hoop_roi = None
    /\ frame_number = MaxShotFrames
    /\ shots_taken > 0
    /\ \E i \in 1..Len(states) : states[i].v = "IN_HOOP"

ZeroStats(sd) ==
    /\ sd.shots_taken = 0
    /\ sd.shots_made = 0
    /\ shooting_percentage(sd) = Zero
    /\ sd.shot_log = <<>>

\* C18 as stated: whenever no hoop rectangle is configured, shots_taken,
\* shots_made and shooting_percentage are 0 and the shot log is empty, after
\* any sequence of construction, set_hoop_roi, update and cleanup calls.
C18_ZeroStatsWithoutRectangle == hoop_roi = None => ZeroStats(ShotDetectorState)

\* C18 amended: as long as no hoop rectangle has been configured since
\* construction, the statistics are zero: they are zero after a construction
\* without rectangle, and every call that starts and ends without rectangle
\* leaves zero statistics zero.
C18_ZeroStatsUntilRectangle ==
    /\ hoop_roi = None => ZeroStats(ShotDetectorState)
    /\ [][hoop_roi = None /\ ZeroStats(ShotDetectorState) /\ hoop_roi' = None =>
              ZeroStats(ShotDetectorState')]_vars

\* no rectangle and nothing counted after as many updates as the run allows
C18_Witness ==
    /\ hoop_roi = None
    /\ frame_number = MaxShotFrames
    /\ ZeroStats(ShotDetectorState)

(***************************************************************************)
(* C20                                                                     *)
(***************************************************************************)
\* what every query of the analyzer answers for an identity without data
Defaults(a, id) ==
    /\ get_velocity(a, id) = <<0, 0>>
    /\ get_acceleration(a, id) = <<0, 0>>
    /\ get_speed(a, id) = 0
    /\ get_trail_points(a, id) = <<>>
    /\ fit_trajectory(a, id) = None
    /\ get_summary(a, id) =
           [object_id |-> id, frames_tracked |-> 0, total_distance_px |-> 0,
            avg_speed_px_per_frame |-> 0, max_speed_px_per_frame |-> 0,
            positions_in_buffer |-> 0]

\* C20: for an identity that is not tracked (never seen, or purged by
\* cleanup) every query answers a defined default: get_velocity and
\* get_acceleration (0, 0), get_speed 0, get_trail_points an empty list,
\* fit_trajectory no fit, get_summary zero counts; and an update of the
\* enabled shot detector that meets an identity it holds no state for takes
\* it as IDLE: the identity ends ABOVE_HOOP if it is above the rectangle and
\* IDLE otherwise, and no shot is counted for it.
C20_DefaultsForUntracked ==
    /\ [](\A id \in Ids : ~Has(positions, id) => Defaults(TrajState, id))
    /\ [][\A id \in Ids :
              /\ call'.op = "update"
              /\ id \in call'.arg
              /\ enabled
              /\ ~Has(states, id)
              => /\ Has(states', id)
                 /\ Get(states', id) =
                        IF is_above_roi(hoop_roi, Last(Get(positions', id)))
                        THEN "ABOVE_HOOP" ELSE "IDLE"
                 /\ \A i \in (Len(shot_log) + 1)..Len(shot_log') :
                        shot_log'[i].object_id # id]_vars

\* the last update met an identity for the first time, above the rectangle,
\* while the analyzer holds nothing any more for another identity the shot
\* detector has seen
C20_Witness ==
    /\ call.op = "update"
    /\ \E id \in call.arg :
         /\ GetOr(frame_count, id, 0) = 1
         /\ GetOr(states, id, "IDLE") = "ABOVE_HOOP"
    /\ \E id \in Ids : Has(states, id) /\ ~Has(positions, id)

(***************************************************************************)
(* C29, C30                                                                *)
(***************************************************************************)
\* the (existing, incoming) index pairs of the last update, and the distance
\* of a pair
PairsOf(loc) == (1..Len(loc.object_centroids)) \X (1..Len(loc.input_centroids))
PairDist(loc, p) ==
    euclidean_distance(loc.object_centroids[p[1]], loc.input_centroids[p[2]])

\* C29: with existing identities and detections both present, update accepts
\* pairs in ascending distance order, a pair being accepted iff neither of
\* its members was consumed before and its distance does not exceed the
\* maximum association distance (a pair at exactly the maximum is accepted);
\* no pair beyond the maximum is accepted, and a closest pair is accepted
\* first when it is within the maximum.
C29_GreedyByDistanceWithinCutoff ==
    upd.path = "associate" =>
        LET m == upd.matches
            D(p) == PairDist(upd, p)
        IN /\ \A i \in 1..Len(m) : D(m[i]) <= MAX_TRACK_DISTANCE
           /\ \A i, j \in 1..Len(m) :
                  i < j => /\ D(m[i]) <= D(m[j])
                           /\ m[i][1] # m[j][1]
                           /\ m[i][2] # m[j][2]
           /\ \A p \in PairsOf(upd) :
                  D(p) <= MAX_TRACK_DISTANCE =>
                      \E i \in 1..Len(m) :
                          /\ m[i][1] = p[1] \/ m[i][2] = p[2]
                          /\ D(m[i]) <= D(p)
           /\ (\E p \in PairsOf(upd) : D(p) <= MAX_TRACK_DISTANCE) =>
                  /\ m # <<>>
                  /\ \A p \in PairsOf(upd) : D(m[1]) <= D(p)

\* a pair at exactly the maximum distance was accepted, and a pair beyond
\* it was left unmatched
C29_Witness ==
    /\ upd.path = "associate"
    /\ \E i \in 1..Len(upd.matches) :
           PairDist(upd, upd.matches[i]) = MAX_TRACK_DISTANCE
    /\ \E p \in PairsOf(upd) :
           /\ PairDist(upd, p) > MAX_TRACK_DISTANCE
           /\ \A i \in 1..Len(upd.matches) : upd.matches[i] # p

\* p comes before q in the enumeration of the distance matrix
Before(p, q) == p[1] < q[1] \/ (p[1] = q[1] /\ p[2] < q[2])

\* C30: pairs of equal distance are considered in their enumeration order
\* (existing index first, then incoming index), so that the result of update
\* is a function of the tracker's state and the ordered detection list: a
\* pair enumerated before an accepted pair of the same distance had been
\* consumed by then, and no list of detections has two outcomes.
C30_TiesInEnumerationOrder ==
    /\ upd.path = "associate" =>
           \A i \in 1..Len(upd.matches) : \A p \in PairsOf(upd) :
               /\ PairDist(upd, p) = PairDist(upd, upd.matches[i])
               /\ Before(p, upd.matches[i])
               => \E j \in 1..(i - 1) :
                      \/ upd.matches[j][1] = p[1]
                      \/ upd.matches[j][2] = p[2]
    /\ \A input_centroids \in CentroidLists(Points, MaxDets) :
           Cardinality({r.t : r \in update(TrackerState, input_centroids)}) = 1

(***************************************************************************)
(* C24                                                                     *)
(***************************************************************************)
\* C24: a processed frame runs Tracker.update, then
\* TrajectoryAnalyzer.update, then ShotDetector.update, then the cleanups, to
\* completion: after the frame the analyzer's last position of every tracked
\* identity is the tracker's centroid of this frame and its velocity is that
\* centroid minus the centroid of the frame before; the shot detector has
\* decided on that velocity and has logged with this frame's number and
\* centroid; and nothing is left for identities the tracker dropped.
C24_StageOrderPerFrame ==
    [][frame_number' = frame_number + 1 =>
         /\ \A id \in KeySet(objects') :
                /\ Has(positions', id)
                /\ Last(Get(positions', id)) = Get(objects', id)
                /\ Has(objects, id) =>
                       get_velocity(TrajState', id) =
                           <<Get(objects', id)[1] - Get(objects, id)[1],
                             Get(objects', id)[2] - Get(objects, id)[2]>>
                /\ ~Has(objects, id) => get_velocity(TrajState', id) = <<0, 0>>
         /\ ~no_shot_detection /\ enabled =>
                /\ \A id \in KeySet(objects') :
                       GetOr(states, id, "IDLE") = "ABOVE_HOOP" =>
                           (Get(states', id) = "IN_HOOP"
                              <=> /\ is_in_roi(hoop_roi, Get(objects', id))
                                  /\ Has(objects, id)
                                  /\ Get(objects', id)[2] > Get(objects, id)[2])
                /\ \A i \in (Len(shot_log) + 1)..Len(shot_log') :
                       /\ shot_log'[i].frame = frame_number'
                       /\ Has(objects', shot_log'[i].object_id)
                       /\ shot_log'[i].position = Get(objects', shot_log'[i].object_id)
         /\ KeySet(positions') = KeySet(objects')
         /\ ~no_shot_detection => KeySet(states') \subseteq KeySet(objects')]_vars

\* a frame took an identity from above the rectangle into it, on the
\* velocity of that very frame
C24_Witness ==
    /\ pc = "frames"
    /\ \E id \in KeySet(objects) :
         /\ GetOr(states, id, "IDLE") = "IN_HOOP"
         /\ Len(Get(positions, id)) = 2
         /\ get_velocity(TrajState, id)[2] > 0

(***************************************************************************)
(* C22                                                                     *)
(***************************************************************************)
\* C22: asked at the current frame or a later one, get_recent_shot_result
\* answers (result, age) for the last shot recorded, age being the frame
\* asked for minus the frame of that shot, when age <= flash_duration (age =
\* flash_duration included), and None otherwise, also when no shot was ever
\* recorded.
C22_RecentShotWithinFlash ==
    \A frame \in frame_number..(frame_number + MaxFlash + 1) :
        \A flash_duration \in 0..MaxFlash :
            LET got == get_recent_shot_result(ShotDetectorState, frame, flash_duration)
            IN IF shot_log = <<>> THEN got = None
               ELSE LET age == frame - Last(shot_log).frame
                    IN IF age <= flash_duration
                       THEN got = <<Last(shot_log).result, age>>
                       ELSE got = None

\* two shots are on record, the last one exactly MaxFlash frames old and
\* still answered
C22_Witness ==
    /\ Len(shot_log) = 2
    /\ frame_number - Last(shot_log).frame = MaxFlash
    /\ get_recent_shot_result(ShotDetectorState, frame_number, MaxFlash)
           = <<Last(shot_log).result, MaxFlash>>
    /\ get_recent_shot_result(ShotDetectorState, frame_number + 1, MaxFlash) = None

\* The log entries the step appended for the given identity.
NewEntriesOf(id) ==
    {i \in (Len(shot_log) + 1)..Len(shot_log') : shot_log'[i].object_id = id}

\* C27: an update that finds a tracked identity in ABOVE_HOOP moves it to
\* IN_HOOP exactly when its centroid is inside the rectangle and its
\* vertical velocity is positive, to IDLE exactly when its centroid is
\* neither above nor inside, and leaves it in ABOVE_HOOP otherwise; it logs
\* nothing for that identity, and when every tracked identity starts in
\* ABOVE_HOOP the counters, the log and the last result are unchanged.
C27_FromAboveHoop ==
    [][(call'.op = "update" /\ enabled) =>
         /\ \A id \in KeySet(call'.arg) :
              GetOr(states, id, "IDLE") = "ABOVE_HOOP" =>
                LET center == Get(call'.arg, id)
                    inside == is_in_roi(hoop_roi, center)
                    above == is_above_roi(hoop_roi, center)
                    falling == call'.vel[id][2] > 0
                IN /\ (Get(states', id) = "IN_HOOP") <=> (inside /\ falling)
                   /\ (Get(states', id) = "IDLE") <=> (~above /\ ~inside)
                   /\ (Get(states', id) = "ABOVE_HOOP")
                        <=> (above \/ (inside /\ ~falling))
                   /\ NewEntriesOf(id) = {}
         /\ (\A id \in KeySet(call'.arg) :
               GetOr(states, id, "IDLE") = "ABOVE_HOOP")
              => UNCHANGED <<shots_taken, shots_made, shot_log, last_shot_result>>
      ]_vars

\* After an update, one identity has just passed from ABOVE_HOOP to IN_HOOP
\* and the other, inside the rectangle and not moving downward, has stayed
\* in ABOVE_HOOP, where an earlier update had put it.
C27_Witness ==
    /\ call.op = "update"
    /\ \E id, other \in Ids :
         /\ Has(call.arg, id) /\ Has(call.arg, other)
         /\ GetOr(states, id, "IDLE") = "IN_HOOP"
         /\ Seen[id].inside = frame_number
         /\ GetOr(states, other, "IDLE") = "ABOVE_HOOP"
         /\ is_in_roi(hoop_roi, Get(call.arg, other))
         /\ call.vel[other][2] <= 0
         /\ Seen[other].above > 0 /\ Seen[other].above < frame_number

\* The tracked identities of the step's update that start it in IN_HOOP.
StartInHoop == {id \in KeySet(call'.arg) : GetOr(states, id, "IDLE") = "IN_HOOP"}

\* The step appended exactly one entry for the identity, with the given
\* result, the update's frame number and the identity's centroid.
LoggedOnce(id, result) ==
    /\ Cardinality(NewEntriesOf(id)) = 1
    /\ \A i \in NewEntriesOf(id) :
         shot_log'[i] = [frame |-> frame_number', object_id |-> id,
                         result |-> result, position |-> Get(call'.arg, id)]

\* C26: an update that finds a tracked identity in IN_HOOP records a scored
\* shot for it exactly when its centroid is below the rectangle (whatever
\* its x), a missed shot exactly when it is neither inside nor below, and
\* leaves it in IN_HOOP with nothing logged when it is still inside; the
\* counters grow by the shots so recorded and the last result is that of the
\* last entry logged, with the update's frame number.
C26_FromInHoop ==
    [][(call'.op = "update" /\ enabled) =>
         /\ \A id \in StartInHoop :
              LET center == Get(call'.arg, id)
                  inside == is_in_roi(hoop_roi, center)
                  below == center[2] > hoop_roi[2] + hoop_roi[4]
              IN /\ below => (Get(states', id) = "IDLE" /\ LoggedOnce(id, "scored"))
                 /\ (~below /\ ~inside)
                      => (Get(states', id) = "IDLE" /\ LoggedOnce(id, "missed"))
                 /\ inside => (Get(states', id) = "IN_HOOP" /\ NewEntriesOf(id) = {})
         /\ shots_taken' = shots_taken + Cardinality(
              {id \in StartInHoop : ~is_in_roi(hoop_roi, Get(call'.arg, id))})
         /\ shots_made' = shots_made + Cardinality(
              {id \in StartInHoop :
                 Get(call'.arg, id)[2] > hoop_roi[2] + hoop_roi[4]})
         /\ IF Len(shot_log') > Len(shot_log)
            THEN last_shot_result' =
                   <<shot_log'[Len(shot_log')].result, frame_number'>>
            ELSE UNCHANGED <<last_shot_result, shot_log>>
      ]_vars

\* The update just made has logged a scored shot for a centroid below the
\* rectangle and outside its x-range, and has left another identity, still
\* inside the rectangle, in IN_HOOP.
C26_Witness ==
    /\ call.op = "update"
    /\ Len(shot_log) > 0
    /\ LET e == shot_log[Len(shot_log)]
       IN /\ e.frame = frame_number /\ e.result = "scored"
          /\ e.position[1] < hoop_roi[1]
          /\ last_shot_result = <<"scored", frame_number>>
          /\ \E other \in Ids \ {e.object_id} :
               /\ Has(call.arg, other)
               /\ GetOr(states, other, "IDLE") = "IN_HOOP"
               /\ Seen[other].inside > 0 /\ Seen[other].inside < frame_number

\* The states one row of the transition table leads to from the given one.
OneTransition(state) ==
    IF state = "IDLE" THEN {"IDLE", "ABOVE_HOOP"}
    ELSE IF state = "ABOVE_HOOP" THEN {"ABOVE_HOOP", "IN_HOOP", "IDLE"}
    ELSE {"IN_HOOP", "IDLE"}

\* C28: every log entry of an identity was appended by an update that began
\* with the identity in IN_HOOP, and is preceded, in strictly earlier updates
\* and in this order, by an update that found it above the rectangle while
\* IDLE and an update that found it inside and moving downward while
\* ABOVE_HOOP; an update takes every identity along at most one row of the
\* transition table and logs at most one entry for it, so that shots_taken
\* grows by at most the number of identities in IN_HOOP at its start; no
\* other operation logs or counts a shot.
C28_ShotOnlyAfterAboveAndInside ==
    /\ [](/\ Len(Preceded) = Len(shot_log)
          /\ \A i \in 1..Len(shot_log) :
               /\ 0 < Preceded[i].above
               /\ Preceded[i].above < Preceded[i].inside
               /\ Preceded[i].inside < shot_log[i].frame)
    /\ [][/\ \A id \in Ids :
               /\ NewEntriesOf(id) # {}
                    => /\ call'.op = "update" /\ Has(call'.arg, id)
                       /\ GetOr(states, id, "IDLE") = "IN_HOOP"
               /\ Cardinality(NewEntriesOf(id)) <= 1
               /\ (call'.op = "update" /\ Has(states', id))
                    => Get(states', id) \in OneTransition(GetOr(states, id, "IDLE"))
          /\ Len(shot_log') - Len(shot_log) = shots_taken' - shots_taken
          /\ shots_taken' >= shots_taken
          /\ shots_taken' - shots_taken
               <= Cardinality({id \in Ids : GetOr(states, id, "IDLE") = "IN_HOOP"})
       ]_vars

\* Two identities have each a shot in the log, both logged by the update
\* just made, the third update of the run.
C28_Witness ==
    /\ call.op = "update"
    /\ Len(shot_log) = 2
    /\ shot_log[1].object_id # shot_log[2].object_id
    /\ shot_log[1].frame = frame_number /\ shot_log[2].frame = frame_number
    /\ Preceded[1].inside = 2 /\ Preceded[2].above = 1
    /\ shots_taken = 2

\* C25: every operation leaves the entries already in the shot log as they
\* are and where they are; cleanup and set_hoop_roi append nothing, and an
\* update appends one entry for every shot it counts, with the fields frame,
\* object_id, result and position, the frame being the update's frame number
\* and the position the identity's centroid in that update.
C25_ShotLogAppendOnly ==
    [][/\ Len(shot_log') >= Len(shot_log)
       /\ SubSeq(shot_log', 1, Len(shot_log)) = shot_log
       /\ call'.op # "update" => shot_log' = shot_log
       /\ call'.op = "update" =>
            /\ Len(shot_log') - Len(shot_log) = shots_taken' - shots_taken
            /\ \A i \in (Len(shot_log) + 1)..Len(shot_log') :
                 /\ DOMAIN shot_log'[i] = {"frame", "object_id", "result", "position"}
                 /\ shot_log'[i].frame = frame_number'
                 /\ Has(call'.arg, shot_log'[i].object_id)
                 /\ shot_log'[i].position = Get(call'.arg, shot_log'[i].object_id)
                 /\ shot_log'[i].result \in {"scored", "missed"}
      ]_vars

\* A cleanup has just removed the state of an identity that has an entry
\* in the log.
C25_Witness ==
    /\ call.op = "cleanup"
    /\ \E i \in 1..Len(shot_log) :
         /\ shot_log[i].object_id \notin call.arg
         /\ ~Has(states, shot_log[i].object_id)

\* The log entries of the update that set the last result.
LastUpdateEntries ==
    {i \in 1..Len(shot_log) : shot_log[i].frame = last_shot_result[2]}

\* C23: the last-result slot holds nothing until a shot is logged and then
\* the result and the frame of the most recent shot only: no logged shot is
\* of a later frame than the slot's, and of the shots of the slot's own
\* update the one of the identity latest in the tracker's iteration order
\* (identities are iterated in ascending order) gives the slot its result.
C23_LastResultIsLatestShot ==
    IF shot_log = <<>> THEN last_shot_result = None
    ELSE /\ last_shot_result # None
         /\ \A i \in 1..Len(shot_log) : shot_log[i].frame <= last_shot_result[2]
         /\ \E i \in LastUpdateEntries :
              /\ \A j \in LastUpdateEntries :
                   shot_log[j].object_id <= shot_log[i].object_id
              /\ last_shot_result[1] = shot_log[i].result
         /\ \A i, j \in 1..Len(shot_log) :
              (i < j /\ shot_log[i].frame = shot_log[j].frame)
                => shot_log[i].object_id < shot_log[j].object_id

\* Three shots are logged: one in an earlier update, then two by different
\* identities in one later update, the first with the result of the earlier
\* shot and the second with the other result, which the slot holds.
C23_Witness ==
    /\ Len(shot_log) = 3
    /\ shot_log[1].frame < shot_log[2].frame
    /\ shot_log[2].frame = shot_log[3].frame
    /\ shot_log[1].result = shot_log[2].result
    /\ shot_log[2].result # shot_log[3].result
    /\ last_shot_result = <<shot_log[3].result, shot_log[3].frame>>

\* C21: a call of a read-only accessor, for a tracked identity or any other,
\* leaves every per-identity map of the trajectory analyzer (positions,
\* total_distance, max_speed, frame_count) and of the shot detector (states)
\* as it was, keys and contents, and the rest of the detector with them.
C21_AccessorsStoreNothing ==
    [][call'.op = "getter" =>
         UNCHANGED <<positions, total_distance, max_speed, frame_count, states,
                     shots_taken, shots_made, shot_log, last_shot_result,
                     hoop_roi, enabled>>
      ]_vars

\* An accessor has just been called for an identity neither analyzer holds
\* while they hold another one.
C21_Witness ==
    /\ call.op = "getter"
    /\ positions # <<>> /\ states # <<>>
    /\ \E obj_id \in call.arg :
         /\ ~Has(positions, obj_id) /\ ~Has(frame_count, obj_id)
         /\ ~Has(total_distance, obj_id) /\ ~Has(max_speed, obj_id)
         /\ ~Has(states, obj_id)

(***************************************************************************)
(* C39, C40                                                                *)
(***************************************************************************)
\* C39: in every reachable state the last-result slot is None exactly when
\* the shot log is empty, and otherwise it is the pair of the result and the
\* frame of the last log entry.
C39_SlotMatchesLog ==
    /\ (last_shot_result = None) <=> (shot_log = <<>>)
    /\ shot_log # <<>> =>
         last_shot_result = <<shot_log[Len(shot_log)].result,
                              shot_log[Len(shot_log)].frame>>

\* A scored shot and then, in a later update, a missed one: the slot holds
\* the missed one, after a cleanup and with the rectangle taken away.
C39_Witness ==
    /\ Len(shot_log) = 2
    /\ shot_log[1].result = "scored" /\ shot_log[2].result = "missed"
    /\ shot_log[1].frame < shot_log[2].frame
    /\ last_shot_result = <<"missed", shot_log[2].frame>>
    /\ states = <<>> /\ ~enabled

\* the float f is at most the whole number n
AtMost(f, n) ==
    IF f = Zero THEN TRUE
    ELSE IF f.exp <= 0
    THEN LessEq(f.man, ShiftLeft(NatBits(n), -f.exp))
    ELSE LessEq(ShiftLeft(f.man, f.exp), NatBits(n))

\* C40: in every reachable state shots_taken is the number of log entries
\* and shots_made the number of them whose result is "scored", so that
\* shots_made is at most shots_taken and shooting_percentage, a float that
\* is zero or positive, is at most 100.
C40_CountersMatchLog ==
    /\ shots_taken = Len(shot_log)
    /\ shots_made =
         Cardinality({i \in 1..Len(shot_log) : shot_log[i].result = "scored"})
    /\ shots_made <= shots_taken
    /\ AtMost(shooting_percentage(ShotDetectorState), 100)

\* Three shots are logged, two of them scored: the percentage is the float
\* next to 66.67, above 66 and below 67.
C40_Witness ==
    /\ shots_taken = 3 /\ shots_made = 2
    /\ Len(shot_log) = 3
    /\ ~AtMost(shooting_percentage(ShotDetectorState), 66)
    /\ AtMost(shooting_percentage(ShotDetectorState), 67)

(***************************************************************************)
(* C31, C34, C35, C36                                                      *)
(***************************************************************************)
\* The detection the call matched to the identity.
MatchOf(loc, id) ==
    LET i == CHOOSE j \in 1..Len(loc.matches) :
                 loc.object_ids[loc.matches[j][1]] = id
    IN loc.input_centroids[loc.matches[i][2]]

\* The detections the call matched to no identity, in their order.
UnmatchedInputs(loc) ==
    LET free == {col \in 1..Len(loc.input_centroids) : col \notin loc.used_cols}
        RECURSIVE InOrder(_)
        InOrder(cols) ==
            IF cols = {} THEN <<>>
            ELSE <<loc.input_centroids[Min(cols)]>> \o InOrder(cols \ {Min(cols)})
    IN InOrder(free)

\* The identities registered by the step, in ascending order.
NewIds == [i \in 1..(next_id' - next_id) |-> next_id + i - 1]

\* C31: the disappearance count of every tracked identity is the number of
\* updates in a row, up to the last one, that left it unmatched; an update
\* gives a matched identity the centroid of its detection and the count 0,
\* adds exactly 1 to the count of an identity it does not match and leaves
\* that identity's centroid alone (or drops the identity, past the
\* threshold), and registers every unmatched incoming centroid, in order,
\* as a new identity with count 0.
C31_CountIsUnmatchedStreak ==
    /\ [](\A id \in KeySet(objects) : Get(disappeared, id) = streak[id])
    /\ [][/\ \A id \in KeySet(objects) :
               IF id \in Matched(upd')
               THEN /\ Has(objects', id)
                    /\ Get(objects', id) = MatchOf(upd', id)
                    /\ Get(disappeared', id) = 0
               ELSE IF Has(objects', id)
               THEN /\ Get(disappeared', id) = Get(disappeared, id) + 1
                    /\ Get(objects', id) = Get(objects, id)
               ELSE Get(disappeared, id) + 1 > MAX_DISAPPEARED
          /\ KeySet(objects') \ KeySet(objects) = {NewIds[i] : i \in 1..Len(NewIds)}
          /\ Len(NewIds) = Len(UnmatchedInputs(upd'))
          /\ \A i \in 1..Len(NewIds) :
               /\ Get(objects', NewIds[i]) = UnmatchedInputs(upd')[i]
               /\ Get(disappeared', NewIds[i]) = 0
       ]_vars

\* One identity has just been matched again and counts 0 while the other
\* has gone unmatched for MAX_DISAPPEARED updates in a row and is still tracked.
C31_Witness ==
    /\ upd.path = "associate"
    /\ \E id, other \in KeySet(objects) :
         /\ id \in Matched(upd) /\ Get(disappeared, id) = 0
         /\ other \notin Matched(upd)
         /\ Get(disappeared, other) = MAX_DISAPPEARED
         /\ streak[other] = MAX_DISAPPEARED

\* C34: after every update the centroid map and the disappearance map have
\* the same keys, every count is in 0..max_disappeared, and next_id is
\* greater than every key.
C34_MapsAgreeCountsBounded ==
    /\ KeySet(objects) = KeySet(disappeared)
    /\ Len(objects) = Cardinality(KeySet(objects))
    /\ Len(disappeared) = Cardinality(KeySet(disappeared))
    /\ \A id \in KeySet(disappeared) :
         Get(disappeared, id) \in 0..MAX_DISAPPEARED
    /\ \A id \in KeySet(objects) : id < next_id

\* An identity has been deregistered and holds no entry in either map, and
\* an update without detections has left another identity at the threshold.
C34_Witness ==
    /\ upd.path = "no_detections"
    /\ removed # {}
    /\ \E id \in KeySet(objects) : Get(disappeared, id) = MAX_DISAPPEARED
    /\ \A id \in removed : ~Has(objects, id) /\ ~Has(disappeared, id)

\* The identities the last update registered.
Registered(loc) ==
    {id \in KeySet(objects) : id >= next_id - Len(UnmatchedInputs(loc))}

\* C35: after an update that compared identities with detections, no
\* identity it left unmatched was within the maximum association distance
\* of a detection it left unmatched and registered as a new identity.
C35_AssociationMaximal ==
    upd.path = "associate" =>
        /\ \A row \in 1..Len(upd.object_ids) : \A id \in Registered(upd) :
             upd.object_ids[row] \notin Matched(upd) =>
                 euclidean_distance(upd.object_centroids[row], Get(objects, id))
                     > MAX_TRACK_DISTANCE
        /\ \A p \in PairsOf(upd) :
             (p[1] \notin upd.used_rows /\ p[2] \notin upd.used_cols)
                 => PairDist(upd, p) > MAX_TRACK_DISTANCE

\* An identity went unmatched, and stays tracked, while the detection of the
\* same update was registered as a new identity, more than the maximum
\* distance away.
C35_Witness ==
    /\ upd.path = "associate"
    /\ \E id \in KeySet(objects) \ Registered(upd) :
         /\ id \notin Matched(upd)
         /\ \E new \in Registered(upd) :
              euclidean_distance(Get(objects, id), Get(objects, new))
                  > MAX_TRACK_DISTANCE

\* C36: after an update with N >= 1 detections every one of them is the
\* centroid of an identity of its own in the map, with disappearance count
\* 0, so that the map holds at least N identities.
C36_NoDetectionDropped ==
    Len(upd.input_centroids) >= 1 =>
        /\ \E owner \in [1..Len(upd.input_centroids) -> KeySet(objects)] :
             /\ \A c1, c2 \in DOMAIN owner : c1 # c2 => owner[c1] # owner[c2]
             /\ \A col \in DOMAIN owner :
                  /\ Get(objects, owner[col]) = upd.input_centroids[col]
                  /\ Get(disappeared, owner[col]) = 0
        /\ Len(objects) >= Len(upd.input_centroids)

\* Of two detections one was matched to the identity already tracked and the
\* other registered as a new identity.
C36_Witness ==
    /\ upd.path = "associate"
    /\ Len(upd.input_centroids) = 2
    /\ Len(upd.matches) = 1
    /\ Cardinality(Registered(upd)) = 1
    /\ Len(objects) = 2

(***************************************************************************)
(* C32                                                                     *)
(***************************************************************************)
\* The Hough detections a run of picks has consumed before the k-th contour
\* detection; pick[j] is the index of the Hough detection merged with the
\* j-th contour detection, 0 for none.
ConsumedBefore(pick, k) == {pick[j] : j \in 1..(k - 1)} \ {0}

\* The Hough detections the k-th contour detection may be merged with: not
\* yet consumed and within the maximum fusion distance.
Candidates(pick, k) ==
    {i \in 1..Len(hough_dets) :
        /\ i \notin ConsumedBefore(pick, k)
        /\ euclidean_distance(contour_dets[k].center, hough_dets[i].center)
               <= FUSION_MATCH_DISTANCE}

\* C32: with both lists non-empty, the contour detections are taken in
\* order; each is merged (method "fused") with a nearest Hough detection not
\* yet consumed if and only if one lies within the maximum fusion distance,
\* and is passed through unchanged otherwise.  No Hough detection is
\* consumed twice, and the output is one entry per contour detection, in
\* contour order, followed by the Hough detections not consumed, unchanged
\* and in Hough order.
C32_GreedyFusionInOrder ==
    (contour_dets # <<>> /\ hough_dets # <<>>) =>
        \E pick \in [1..Len(contour_dets) -> 0..Len(hough_dets)] :
            LET merged == {k \in DOMAIN pick : pick[k] # 0}
            IN /\ \A k \in DOMAIN pick :
                    /\ pick[k] = 0 <=> Candidates(pick, k) = {}
                    /\ pick[k] # 0 =>
                         /\ pick[k] \in Candidates(pick, k)
                         /\ \A i \in Candidates(pick, k) :
                              euclidean_distance(contour_dets[k].center,
                                                 hough_dets[pick[k]].center)
                                <= euclidean_distance(contour_dets[k].center,
                                                      hough_dets[i].center)
               /\ \A j, k \in merged : j # k => pick[j] # pick[k]
               /\ Len(detections)
                    = Len(contour_dets) + Len(hough_dets) - Cardinality(merged)
               /\ \A k \in DOMAIN pick :
                    IF pick[k] = 0 THEN detections[k] = contour_dets[k]
                    ELSE /\ detections[k].method = "fused"
                         /\ detections[k] = Fused(contour_dets[k], hough_dets[pick[k]])
               /\ SubSeq(detections, Len(contour_dets) + 1, Len(detections))
                    = UnmatchedHough(hough_dets, {pick[k] : k \in merged})

(***************************************************************************)
(* C33                                                                     *)
(***************************************************************************)
\* The position the step has buffered last for the identity.
NewPosition(id) == Get(positions', id)[Len(Get(positions', id))]

\* C33: an update that contains an identity adds exactly 1 to its frame
\* counter and buffers its centroid; for the first position of an identity
\* total distance and max speed stay 0, for every later one the distance
\* from the position buffered last before is added to the total distance
\* and max speed is raised to it if it is greater.  While an identity is
\* held, no operation lowers its total distance, max speed or frame counter,
\* and only an update that contains it changes them.
C33_DistanceAccumulates ==
    [][/\ call'.op = "update" =>
            \A id \in call'.arg :
                /\ Has(positions', id)
                /\ Get(frame_count', id) = GetOr(frame_count, id, 0) + 1
                /\ IF ~Has(positions, id)
                   THEN /\ Get(positions', id) = <<NewPosition(id)>>
                        /\ GetOr(total_distance', id, 0) = 0
                        /\ GetOr(max_speed', id, 0) = 0
                        /\ Get(frame_count', id) = 1
                   ELSE LET buffered == Get(positions, id)
                            speed == euclidean_distance(buffered[Len(buffered)],
                                                        NewPosition(id))
                        IN /\ Get(total_distance', id)
                                = GetOr(total_distance, id, 0) + speed
                           /\ Get(max_speed', id)
                                = IF speed > GetOr(max_speed, id, 0)
                                  THEN speed ELSE GetOr(max_speed, id, 0)
                           /\ Len(Get(positions', id)) >= 2
                           /\ Get(positions', id)[Len(Get(positions', id)) - 1]
                                = buffered[Len(buffered)]
       /\ \/ UNCHANGED traj_vars
          \/ \A id \in KeySet(positions) \cap KeySet(positions') :
            /\ GetOr(total_distance', id, 0) >= GetOr(total_distance, id, 0)
            /\ GetOr(max_speed', id, 0) >= GetOr(max_speed, id, 0)
            /\ Get(frame_count', id) >= Get(frame_count, id)
            /\ ~(call'.op = "update" /\ id \in call'.arg) =>
                 /\ GetOr(total_distance', id, 0) = GetOr(total_distance, id, 0)
                 /\ GetOr(max_speed', id, 0) = GetOr(max_speed, id, 0)
                 /\ Get(frame_count', id) = Get(frame_count, id)
                 /\ Get(positions', id) = Get(positions, id)
      ]_vars

\* The update just made has recorded a first position for one identity,
\* which has no distance yet, and a third position, where the second one
\* was, for the other, which keeps the distance and the max speed of its
\* second update.
C33_Witness ==
    /\ call.op = "update"
    /\ \E id, other \in call.arg :
         /\ Get(frame_count, id) = 1
         /\ Len(Get(positions, id)) = 1
         /\ ~Has(total_distance, id) /\ ~Has(max_speed, id)
         /\ Get(frame_count, other) = 3
         /\ Get(positions, other)[2] = Get(positions, other)[3]
         /\ Get(total_distance, other) = 80
         /\ Get(max_speed, other) = 80

(***************************************************************************)
(* C37, C38                                                                *)
(***************************************************************************)
\* C37: in the pipeline, the hoop rectangle fixed before the first frame and
\* the history holding at least 2 positions, after every frame every
\* identity in IN_HOOP is tracked with its centroid inside the rectangle and
\* every identity in ABOVE_HOOP is tracked with its centroid above it; and a
\* frame that finds an ABOVE_HOOP identity inside the rectangle finds its
\* vertical velocity positive and moves it to IN_HOOP.
C37_StatesAgreeWithCentroids ==
    /\ []((pc = "frames" /\ ~no_shot_detection /\ enabled) =>
            \A id \in KeySet(states) :
                /\ Get(states, id) = "IN_HOOP" =>
                     Has(objects, id) /\ is_in_roi(hoop_roi, Get(objects, id))
                /\ Get(states, id) = "ABOVE_HOOP" =>
                     Has(objects, id) /\ is_above_roi(hoop_roi, Get(objects, id)))
    /\ [][(frame_number' = frame_number + 1 /\ ~no_shot_detection /\ enabled) =>
            \A id \in KeySet(objects') :
                (/\ GetOr(states, id, "IDLE") = "ABOVE_HOOP"
                 /\ is_in_roi(hoop_roi, Get(objects', id)))
                  => /\ get_velocity(TrajState', id)[2] > 0
                     /\ Get(states', id) = "IN_HOOP"
       ]_vars

\* An identity is in IN_HOOP, inside the rectangle since the frame before,
\* while another, registered in the last frame, is in ABOVE_HOOP.
C37_Witness ==
    /\ pc = "frames" /\ ~no_shot_detection /\ enabled
    /\ TRAJECTORY_HISTORY_LENGTH >= 2
    /\ \E id, other \in KeySet(objects) :
         /\ Get(states, id) = "IN_HOOP"
         /\ Len(Get(positions, id)) >= 2
         /\ Get(states, other) = "ABOVE_HOOP"
         /\ Len(Get(positions, other)) = 1

\* C38: in the pipeline, a frame whose tracker update leaves an IN_HOOP
\* identity unmatched either keeps it in the tracker map (its count not past
\* the threshold) with the centroid it had, appends that centroid once more
\* to its history, so that its velocity is (0, 0), adds 1 to its frame
\* counter and leaves it in IN_HOOP with nothing logged; or deregisters it
\* (its count past the threshold), purges its position history and its shot
\* state and logs nothing for it.  No shot is logged for a deregistered
\* identity afterwards, and every shot counted is logged.
C38_StaleInHoopNeverCounted ==
    [][(frame_number' = frame_number + 1 /\ ~no_shot_detection /\ enabled) =>
         /\ \A id \in KeySet(objects) :
              (GetOr(states, id, "IDLE") = "IN_HOOP" /\ id \notin Matched(upd')) =>
                 /\ Has(objects', id)
                      <=> Get(disappeared, id) + 1 <= MAX_DISAPPEARED
                 /\ NewEntriesOf(id) = {}
                 /\ IF Has(objects', id)
                    THEN LET buffered == Get(positions', id)
                         IN /\ Get(objects', id) = Get(objects, id)
                            /\ Len(buffered) >= 2
                            /\ buffered[Len(buffered)] = Get(objects, id)
                            /\ buffered[Len(buffered) - 1] = Get(objects, id)
                            /\ get_velocity(TrajState', id) = <<0, 0>>
                            /\ Get(frame_count', id) = Get(frame_count, id) + 1
                            /\ Get(states', id) = "IN_HOOP"
                    ELSE /\ ~Has(states', id)
                         /\ ~Has(positions', id) /\ ~Has(frame_count', id)
                         /\ id \in removed'
         /\ \A id \in removed' : NewEntriesOf(id) = {}
         /\ shots_taken' - shots_taken = Len(shot_log') - Len(shot_log)
      ]_vars

\* An identity in IN_HOOP has gone unmatched for MAX_DISAPPEARED frames in a
\* row and is still tracked, at the threshold: its history ends with
\* repeats of its last centroid, its frame counter has grown with every
\* frame, no shot is counted, and a frame is left to deregister it.
C38_Witness ==
    /\ pc = "frames" /\ ~no_shot_detection /\ enabled
    /\ frame_number < MaxRunFrames
    /\ \E id \in KeySet(objects) :
         /\ Get(states, id) = "IN_HOOP"
         /\ Get(disappeared, id) = MAX_DISAPPEARED
         /\ streak[id] = MAX_DISAPPEARED
         /\ Get(frame_count, id) = MAX_DISAPPEARED + 2
         /\ LET buffered == Get(positions, id)
            IN /\ Len(buffered) >= 2
               /\ buffered[Len(buffered)] = Get(objects, id)
               /\ buffered[Len(buffered) - 1] = Get(objects, id)
    /\ shots_taken = 0 /\ shot_log = <<>>

====
